---- MODULE Spec2Model ----
(***************************************************************************)
(* Verification model of the surf HTTP request-execution pipeline          *)
(* (github.com/fupengl/surf): Surf.Request, Surf.prepareRequest, the       *)
(* RequestConfig helpers and readBody.  Spec follows one Request call;     *)
(* SpecReadBody, SpecBuildURL, SpecMerge, SpecMergeMaps and SpecBody call  *)
(* readBody, BuildURL / BuildQuery, mergeConfig and getRequestBody /       *)
(* setContentTypeHeader on their own; SpecClient follows several Requests  *)
(* that share one profile and its transport handle; SpecInterceptors       *)
(* follows goroutines that register interceptors on one descriptor;        *)
(* SpecClone follows CloneDefaultConfig and later changes; SpecRedirects   *)
(* follows the redirect loop of a Request for as long as it runs;          *)
(* SpecTwice follows Requests made one after the other with one descriptor;*)
(* SpecRegister follows Append and Prepend calls made in sequence and the  *)
(* chain invoked afterwards; SpecLocks follows the interceptor mutexes     *)
(* while goroutines run Requests whose interceptors call back into the     *)
(* client.                                                                 *)
(*                                                                         *)
(* Strings that the code inspects character by character (URLs) are        *)
(* sequences of one-character strings; every other string is atomic.       *)
(***************************************************************************)
EXTENDS Integers, Sequences, FiniteSets, TLC

VARIABLES
    cfg,        \* the shared *Config of the Surf client (the profile)
    rc,         \* the *RequestConfig passed to Request (the descriptor)
    pc,         \* position of the call in Request / prepareRequest / readBody
    idx,        \* index of the next interceptor of the chain being invoked
    orgBody,    \* prepareRequest's local orgBody
    req,        \* the current *http.Request (local req of Request)
    redirects,  \* Request's local redirect counter
    calls,      \* the wire requests handed to config.Client.Do, in order
    resp,       \* the answer of the latest config.Client.Do call
    io,         \* what was done to the latest response's Body stream
    ran,        \* the interceptors invoked so far, in order
    response,   \* Request's local response (the Response it builds)
    rb,         \* a direct call of readBody: its arguments and its result
    ret,        \* what Request (or readBody) returned, if it did
    clients,    \* the *http.Client handles of the process: Timeout and Jar
    jobs,       \* Requests running on one profile: descriptor and position
    built,      \* direct calls of RequestConfig methods: their results
    callers,    \* goroutines registering interceptors on the descriptor
    cloned,     \* a CloneDefaultConfig call: the clone and the cookies' memory
    sent        \* the wire requests of the earlier Requests with the descriptor

vars ==
    <<cfg, rc, pc, idx, orgBody, req, redirects, calls, resp, io, ran, response,
      rb, ret, clients, jobs, built, callers, cloned, sent>>

----------------------------------------------------------------------------
(* Bounds of the model. *)

\* most interceptors registered in all four lists together
MaxInterceptors == 2
\* largest MaxRedirects a descriptor carries
MaxRedirectsBound == 2
\* most cookies in the profile's and the descriptor's cookie lists together
MaxCookies == 1
\* longest raw response stream handed to readBody
MaxStreamLen == 2

\* most trailing separators of a base URL and leading separators of a path
MaxSeps == 2
\* largest Timeout a profile or a descriptor carries
MaxTimeout == 1
\* most Requests made on one profile
MaxRequests == 2
\* most goroutines registering interceptors on one descriptor at once
MaxCallers == 2
\* most mutations made through a profile or its clone
MaxMutations == 2

\* transport calls the model follows in one Request (the code has no such cap
\* when MaxRedirects is 0); always more than MaxRedirects + 1
MaxCalls == MaxRedirectsBound + 2

----------------------------------------------------------------------------
(* Small helpers. *)

Min(a, b) == IF a < b THEN a ELSE b

\* the first n elements of the list of ids <<[list |-> l, i |-> 1], ...>>
Ids(l, n) == [i \in 1..n |-> [list |-> l, i |-> i]]

----------------------------------------------------------------------------
(* Errors.  An error value is a record; NoErr is Go's nil error. *)

NoErr == [kind |-> "nil", list |-> "", n |-> 0]

Err(kind) == [kind |-> kind, list |-> "", n |-> 0]

\* the error value interceptor id returns when it fails (its own value)
InterceptorErr(id) == [kind |-> "interceptor", list |-> id.list, n |-> id.i]

ErrRequestDataTypeInvalid == Err("request data type is not supported")

ErrRedirectMissingLocation == Err("redirect missing location header")

\* fmt.Errorf("maximum number of redirects (%d) exceeded", config.MaxRedirects)
ErrRedirectsExceeded(max) ==
    [kind |-> "maximum number of redirects exceeded", list |-> "", n |-> max]

\* fmt.Errorf("response body exceeds the maximum length of %d", maxBodyLength)
ErrBodyExceeds(max) ==
    [kind |-> "response body exceeds the maximum length", list |-> "", n |-> max]

----------------------------------------------------------------------------
(* Strings the code takes apart are sequences of one-character strings. *)

\* strings.Contains(s, sub)
Contains(s, sub) ==
    \E i \in 1..(Len(s) - Len(sub) + 1) : SubSeq(s, i, i + Len(sub) - 1) = sub

\* strings.HasSuffix(s, suf)
HasSuffix(s, suf) ==
    Len(s) >= Len(suf) /\ SubSeq(s, Len(s) - Len(suf) + 1, Len(s)) = suf

\* strings.TrimLeft(s, "/")
RECURSIVE TrimLeftSlash(_)
TrimLeftSlash(s) ==
    IF s # <<>> /\ Head(s) = "/" THEN TrimLeftSlash(Tail(s)) ELSE s

SchemeSep == <<":", "/", "/">>

HexDigits == {"0", "a", "b"}

\* url.Parse rejects a "%" that does not start a two-digit hex escape; the
\* other rejections of url.Parse need characters these strings never hold
urlParseOK(u) ==
    \A i \in 1..Len(u) :
        u[i] = "%" =>
            /\ i + 2 <= Len(u)
            /\ u[i + 1] \in HexDigits
            /\ u[i + 2] \in HexDigits

\* the URLs of the model
UrlAbs == <<"h", ":", "/", "/", "x", "/", "a">>
LocNext == <<"/", "b">>
LocBad == <<"%">>
NoUrl == <<>>

----------------------------------------------------------------------------
(* http.Header: a map from header name to its list of values.  The Cookie  *)
(* header is kept apart, as the list of name=value pairs it holds.         *)

headerContentType == "Content-Type"
headerUserAgent == "User-Agent"
headerAcceptEncoding == "Accept-Encoding"
headerAccept == "Accept"
headerCustom == "X-Custom"

HeaderNames ==
    {headerContentType, headerUserAgent, headerAcceptEncoding, headerAccept,
     headerCustom}

EmptyHeader == [k \in HeaderNames |-> <<>>]

\* Header.Get: the first value, "" when there is none (also on a nil map)
HeaderGet(h, k) == IF h[k] = <<>> THEN "" ELSE h[k][1]

\* Header.Set
HeaderSet(h, k, v) == [h EXCEPT ![k] = <<v>>]

\* Header.Add
HeaderAdd(h, k, v) == [h EXCEPT ![k] = Append(@, v)]

UserAgent == "surf/0.0.1 (https://github.com/fupengl/surf)"
defaultAcceptEncoding == "gzip, deflate, br"
defaultAccept == "application/json, text/plain, */*"
defaultJsonContentType == "application/json; charset=UTF-8"
defaultTextContentType == "text/plain; charset=UTF-8"
defaultStreamContentType == "application/octet-stream"
defaultFormContentType == "application/x-www-form-urlencoded; charset=UTF-8"
multipartContentType == "multipart/form-data; boundary=x"
xmlContentType == "application/xml"

\* regXmlHeader.MatchString / regJsonHeader.MatchString on the content types
\* of the model
IsXmlHeader(ct) == ct = xmlContentType
IsJsonHeader(ct) == ct = defaultJsonContentType

----------------------------------------------------------------------------
(* Request bodies.  A body value is its dynamic type (kind), an identity   *)
(* and whether serialising it fails.                                       *)

BodyKinds ==
    {"nil", "reader", "bytes", "multipart", "form", "string", "struct",
     "slicestruct", "map"}

NilBody == [kind |-> "nil", id |-> 0, fails |-> FALSE]

Body(kind, id) == [kind |-> kind, id |-> id, fails |-> FALSE]

\* Go compares two interface values of one dynamic type with that type's ==,
\* which panics for slices, maps and structs that hold them
Comparable(kind) == kind \in {"nil", "reader", "multipart", "string", "struct"}

\* an io.Reader: the body value it reads and the getRequestBody call (1 or 2)
\* that produced it; NoStream is the nil reader
NoStream == [src |-> NilBody, call |-> 0]

Stream(b, call) == [src |-> b, call |-> call]

----------------------------------------------------------------------------
(* RequestConfig: URL and query construction. *)

\* strings.Replace(u, old, new, -1) for a non-empty old
RECURSIVE ReplaceAll(_, _, _)
ReplaceAll(u, old, new) ==
    IF Len(u) < Len(old) THEN u
    ELSE IF SubSeq(u, 1, Len(old)) = old
         THEN new \o ReplaceAll(SubSeq(u, Len(old) + 1, Len(u)), old, new)
         ELSE <<Head(u)>> \o ReplaceAll(Tail(u), old, new)

\* url.QueryEscape of one character
QueryEscape(ch) ==
    CASE ch = "/" -> <<"%", "2", "F">>
      [] ch = ":" -> <<"%", "3", "A">>
      [] ch = "?" -> <<"%", "3", "F">>
      [] ch = "%" -> <<"%", "2", "5">>
      [] OTHER -> <<ch>>

RECURSIVE QueryEscapeAll(_)
QueryEscapeAll(v) ==
    IF v = <<>> THEN <<>> ELSE QueryEscape(Head(v)) \o QueryEscapeAll(Tail(v))

\* the keys of the model's maps, in the order sort.Strings gives them
KeyOrder == <<"a", "i", "j">>

\* the keys of map m, sorted
SortedKeys(m) ==
    LET F[i \in 0..Len(KeyOrder)] ==
            IF i = 0 THEN <<>>
            ELSE IF KeyOrder[i] \in DOMAIN m THEN Append(F[i - 1], KeyOrder[i])
                 ELSE F[i - 1]
    IN F[Len(KeyOrder)]

\* url.Values.Encode: keys sorted, key=value pairs joined by "&"
ValuesEncode(m) ==
    LET keys == SortedKeys(m)
        Pairs[i \in 0..Len(keys)] ==
            IF i = 0 THEN <<>>
            ELSE LET k == keys[i]
                     One[j \in 0..Len(m[k])] ==
                         IF j = 0 THEN <<>>
                         ELSE Append(One[j - 1],
                                     QueryEscapeAll(<<k>>) \o <<"=">>
                                         \o QueryEscapeAll(m[k][j]))
                 IN Pairs[i - 1] \o One[Len(m[k])]
        Join[i \in 0..Len(Pairs[Len(keys)])] ==
            IF i = 0 THEN <<>>
            ELSE IF i = 1 THEN Pairs[Len(keys)][1]
                 ELSE Join[i - 1] \o <<"&">> \o Pairs[Len(keys)][i]
    IN Join[Len(Pairs[Len(keys)])]

\* a map that is nil in Go; Query and Params hold [nil, m]
NilMap == [nil |-> TRUE, m |-> <<>>]

MakeMap(m) == [nil |-> FALSE, m |-> m]

\* QuerySerializer: "none" is a nil pointer, "nilEncode" one whose Encode is
\* nil, "empty", "custom" and "colon" have an Encode returning "", "q" and ":i"
SerializerEncode(qs, m) ==
    CASE qs = "empty" -> <<>>
      [] qs = "colon" -> <<":", "i">>
      [] OTHER -> <<"q">>

\* the number of calls of QuerySerializer.Encode a BuildQuery call makes
EncodeCalls(c) ==
    IF ~c.Query.nil /\ c.QuerySerializer \notin {"none", "nilEncode"}
    THEN 1 ELSE 0

\* BuildQuery with the custom serializer never consulted
BuildQueryIgnoringSerializer(c) ==
    IF ~c.Query.nil THEN ValuesEncode(c.Query.m) ELSE <<>>

\* RequestConfig.BuildQuery
BuildQuery(c) ==
    IF ~c.Query.nil
    THEN IF c.QuerySerializer \notin {"none", "nilEncode"}
         THEN SerializerEncode(c.QuerySerializer, c.Query.m)
         ELSE ValuesEncode(c.Query.m)
    ELSE <<>>

\* the orders in which Go may range over the keys of map m
KeyOrders(m) ==
    {o \in [1..Cardinality(DOMAIN m) -> DOMAIN m] :
        \A i, j \in DOMAIN o : i # j => o[i] # o[j]}

\* the placeholder substitution of appendQueryToURL in key order o
SubstituteIn(c, u, o) ==
    LET F[i \in 0..Len(o)] ==
            IF i = 0 THEN u
            ELSE ReplaceAll(F[i - 1], <<":", o[i]>>, c.Params.m[o[i]])
    IN F[Len(o)]

\* appendQueryToURL with the query appended before the placeholders are
\* substituted
appendQueryThenSubstitute(c, u) ==
    {LET v == IF ~c.Query.nil
              THEN IF Contains(u, <<"?">>)
                   THEN u \o <<"&">> \o BuildQuery(c)
                   ELSE u \o <<"?">> \o BuildQuery(c)
              ELSE u
     IN SubstituteIn(c, v, o)
     : o \in KeyOrders(c.Params.m)}

\* RequestConfig.appendQueryToURL; the result depends on the order in which
\* the Params map is ranged over, so it is the set of possible results
appendQueryToURL(c, u) ==
    {LET v == SubstituteIn(c, u, o)
     IN IF ~c.Query.nil
        THEN IF Contains(v, <<"?">>)
             THEN v \o <<"&">> \o BuildQuery(c)
             ELSE v \o <<"?">> \o BuildQuery(c)
        ELSE v
     : o \in KeyOrders(c.Params.m)}

\* BuildURL with the leading separators of the path kept
BuildURLKeepingSeparators(c) ==
    IF c.BaseURL = <<>> THEN appendQueryToURL(c, c.Url)
    ELSE IF Contains(c.Url, SchemeSep) THEN {c.Url}
    ELSE LET b1 == IF HasSuffix(c.BaseURL, <<"/">>) THEN c.BaseURL
                   ELSE c.BaseURL \o <<"/">>
             b2 == IF Contains(b1, SchemeSep) THEN b1
                   ELSE <<"h", "t", "t", "p", "s", ":", "/", "/">> \o b1
         IN IF urlParseOK(b2 \o c.Url)
            THEN appendQueryToURL(c, b2 \o c.Url)
            ELSE {<<>>}

\* RequestConfig.BuildURL: the set of strings a call may return
BuildURL(c) ==
    IF c.BaseURL = <<>> THEN appendQueryToURL(c, c.Url)
    ELSE IF Contains(c.Url, SchemeSep) THEN {c.Url}
    ELSE LET b1 == IF HasSuffix(c.BaseURL, <<"/">>) THEN c.BaseURL
                   ELSE c.BaseURL \o <<"/">>
             urlPath == TrimLeftSlash(c.Url)
             b2 == IF Contains(b1, SchemeSep) THEN b1
                   ELSE <<"h", "t", "t", "p", "s", ":", "/", "/">> \o b1
         IN IF urlParseOK(b2 \o urlPath)
            THEN appendQueryToURL(c, b2 \o urlPath)
            ELSE {<<>>}

----------------------------------------------------------------------------
(* RequestConfig: body resolution, content type, merge with the profile. *)

\* RequestConfig.SetHeader
SetHeader(c, k, v) == [c EXCEPT !.Header = HeaderSet(@, k, v)]

\* RequestConfig.getRequestBody, as call number `call` of prepareRequest:
\* the reader and error it returns and the descriptor it leaves
getRequestBody(c, call) ==
    LET b == c.Body
        ct == HeaderGet(c.Header, headerContentType)
    IN CASE b.kind = "nil" ->
               [r |-> NoStream, err |-> NoErr, rc |-> c]
         [] b.kind = "reader" ->
               [r |-> Stream(b, 0), err |-> NoErr, rc |-> c]
         [] b.kind = "multipart" ->
               IF b.fails
               THEN [r |-> Stream(b, call), err |-> Err("multipart"), rc |-> c]
               ELSE [r |-> Stream(b, call), err |-> NoErr,
                     rc |-> SetHeader(c, headerContentType, multipartContentType)]
         [] b.kind \in {"bytes", "form", "string"} ->
               [r |-> Stream(b, call), err |-> NoErr, rc |-> c]
         [] OTHER ->
               IF ct # "" /\ IsXmlHeader(ct)
               THEN IF b.fails
                    THEN [r |-> NoStream, err |-> Err("xml marshal"), rc |-> c]
                    ELSE [r |-> Stream(b, call), err |-> NoErr, rc |-> c]
               ELSE IF ct # "" /\ IsJsonHeader(ct)
               THEN IF b.fails
                    THEN [r |-> NoStream, err |-> Err("json marshal"), rc |-> c]
                    ELSE [r |-> Stream(b, call), err |-> NoErr, rc |-> c]
               ELSE [r |-> NoStream, err |-> ErrRequestDataTypeInvalid, rc |-> c]

\* setContentTypeHeader leaving string and []byte bodies to the caller
setContentTypeHeaderLeavingText(c) ==
    IF HeaderGet(c.Header, headerContentType) # "" THEN c
    ELSE CASE c.Body.kind \in {"string", "bytes", "reader"} -> c
           [] c.Body.kind = "form" ->
                 SetHeader(c, headerContentType, defaultFormContentType)
           [] OTHER ->
                 SetHeader(c, headerContentType, defaultJsonContentType)

\* RequestConfig.setContentTypeHeader (a multipart body is a *multipartFile,
\* which the type switch sends to its default case)
setContentTypeHeader(c) ==
    IF HeaderGet(c.Header, headerContentType) # "" THEN c
    ELSE CASE c.Body.kind = "string" ->
                 SetHeader(c, headerContentType, defaultTextContentType)
           [] c.Body.kind = "bytes" ->
                 SetHeader(c, headerContentType, defaultStreamContentType)
           [] c.Body.kind = "reader" -> c
           [] c.Body.kind = "form" ->
                 SetHeader(c, headerContentType, defaultFormContentType)
           [] OTHER ->
                 SetHeader(c, headerContentType, defaultJsonContentType)

\* the Params of the descriptor after the merge: profile keys it lacks are set
MergeParams(c, config) ==
    IF config.Params.nil \/ DOMAIN config.Params.m \subseteq DOMAIN c.Params.m
    THEN c.Params
    ELSE MakeMap([k \in DOMAIN c.Params.m \cup DOMAIN config.Params.m |->
                     IF k \in DOMAIN c.Params.m THEN c.Params.m[k]
                     ELSE config.Params.m[k]])

\* the Query after the merge: for a profile key the descriptor lacks, SetQuery
\* is called with each profile value in turn, and each call replaces the list
MergeQuery(c, config) ==
    LET add == {k \in DOMAIN config.Query.m :
                    k \notin DOMAIN c.Query.m /\ config.Query.m[k] # <<>>}
    IN IF config.Query.nil \/ add = {} THEN c.Query
       ELSE MakeMap([k \in DOMAIN c.Query.m \cup add |->
                        IF k \in DOMAIN c.Query.m THEN c.Query.m[k]
                        ELSE <<config.Query.m[k][Len(config.Query.m[k])]>>])

\* a nil pointer or a nil func; every other value of these fields is a name
Nil == "nil"

\* a sync.Mutex nobody holds; a held one is the number of the goroutine that
\* locked it
Unlocked == 0

\* defaultValue on pointers and funcs: isZero is true for nil only
\* (reflect.DeepEqual holds two funcs equal only when both are nil)
defaultValue(value, default) == IF value = Nil THEN default ELSE value

\* the *http.Client handles: http.DefaultClient, one built for the profile,
\* one built for a descriptor
DefaultClient == "http.DefaultClient"

\* each handle as its owner built it: no timeout, no cookie jar
FreshClients ==
    [h \in {DefaultClient, "profileClient", "ownClient"} |->
        [Timeout |-> 0, Jar |-> Nil]]

\* mergeConfig with the profile's values taking precedence where it has any
mergeConfigProfileWins(c, config) ==
    [c EXCEPT
        !.BaseURL = IF config.BaseURL # <<>> THEN config.BaseURL ELSE @,
        !.Client = IF config.Client # Nil THEN config.Client
                   ELSE defaultValue(@, DefaultClient),
        !.Timeout = IF config.Timeout # 0 THEN config.Timeout ELSE @,
        !.Method = IF @ = "" THEN "GET" ELSE @,
        !.QuerySerializer =
            IF config.QuerySerializer # "none" THEN config.QuerySerializer ELSE @,
        !.MaxBodyLength =
            IF config.MaxBodyLength # 0 THEN config.MaxBodyLength ELSE @,
        !.JSONMarshal =
            defaultValue(config.JSONMarshal, defaultValue(@, "json.Marshal")),
        !.JSONUnmarshal =
            defaultValue(config.JSONUnmarshal, defaultValue(@, "json.Unmarshal")),
        !.XMLMarshal =
            defaultValue(config.XMLMarshal, defaultValue(@, "xml.Marshal")),
        !.XMLUnmarshal =
            defaultValue(config.XMLUnmarshal, defaultValue(@, "xml.Unmarshal"))]

\* RequestConfig.mergeConfig: the descriptor it leaves
mergeConfig(c, config) ==
    [c EXCEPT
        !.BaseURL = IF @ = <<>> THEN config.BaseURL ELSE @,
        !.Client = IF @ = Nil THEN defaultValue(config.Client, DefaultClient)
                   ELSE @,
        !.Timeout = IF @ = 0 THEN config.Timeout ELSE @,
        !.Method = IF @ = "" THEN "GET" ELSE @,
        !.QuerySerializer = IF @ = "none" THEN config.QuerySerializer ELSE @,
        !.MaxBodyLength = IF @ = 0 THEN config.MaxBodyLength ELSE @,
        !.Params = MergeParams(c, config),
        !.Query = MergeQuery(c, config),
        !.JSONMarshal =
            IF @ = Nil THEN defaultValue(config.JSONMarshal, "json.Marshal")
            ELSE @,
        !.JSONUnmarshal =
            IF @ = Nil THEN defaultValue(config.JSONUnmarshal, "json.Unmarshal")
            ELSE @,
        !.XMLMarshal =
            IF @ = Nil THEN defaultValue(config.XMLMarshal, "xml.Marshal")
            ELSE @,
        !.XMLUnmarshal =
            IF @ = Nil THEN defaultValue(config.XMLUnmarshal, "xml.Unmarshal")
            ELSE @]

\* RequestConfig.mergeConfig: what it writes through rc.Client, the handle the
\* merged descriptor points to
mergeClient(c, config, cl) ==
    LET m == mergeConfig(c, config)
        withJar == IF config.CookieJar # Nil
                   THEN [cl EXCEPT ![m.Client].Jar = config.CookieJar]
                   ELSE cl
    IN IF m.Timeout # 0
       THEN [withJar EXCEPT ![m.Client].Timeout = m.Timeout]
       ELSE withJar

----------------------------------------------------------------------------
(* net/http requests as the pipeline uses them. *)

NoReq == [method |-> "", url |-> NoUrl, header |-> EmptyHeader,
          cookies |-> <<>>, body |-> NoStream, length |-> 0]

\* Request.ContentLength as NewRequestWithContext sets it: the length of the
\* *bytes.Reader getRequestBody made (a body value of the model is as many
\* bytes long as its id), 0 for no body and for a reader of any other type
ContentLength(body) ==
    IF body.src.kind \in {"nil", "reader"} THEN 0 ELSE body.src.id

\* http.NewRequestWithContext(ctx, method, url, body): the request, or ok =
\* FALSE when url.Parse rejects the URL
NewRequest(method, url, body) ==
    [ok |-> urlParseOK(url),
     req |-> [method |-> method, url |-> url, header |-> EmptyHeader,
              cookies |-> <<>>, body |-> body,
              length |-> ContentLength(body)]]

\* Request.AddCookie: the pair is appended to the Cookie header
AddCookie(r, c) == [r EXCEPT !.cookies = Append(@, c)]

\* Request.Cookies: the pairs of the Cookie header
Cookies(r) == r.cookies

\* for _, cookie := range cs { r.AddCookie(cookie) }
AddCookies(r, cs) ==
    LET F[i \in 0..Len(cs)] == IF i = 0 THEN r ELSE AddCookie(F[i - 1], cs[i])
    IN F[Len(cs)]

\* for key, values := range h { for each value: r.Header.Set(key, value) }
SetHeaders(r, h) ==
    [r EXCEPT !.header =
        [k \in HeaderNames |-> IF h[k] = <<>> THEN @[k] ELSE <<h[k][Len(h[k])]>>]]

\* for key, values := range h { for each value: r.Header.Add(key, value) }
AddHeaders(r, h) ==
    [r EXCEPT !.header = [k \in HeaderNames |-> @[k] \o h[k]]]

\* the defaults prepareRequest fills in at its end
DefaultHeaders(r) ==
    LET r1 == IF HeaderGet(r.header, headerUserAgent) = ""
              THEN [r EXCEPT !.header = HeaderSet(@, headerUserAgent, UserAgent)]
              ELSE r
        r2 == IF HeaderGet(r1.header, headerAcceptEncoding) = ""
              THEN [r1 EXCEPT !.header =
                        HeaderSet(@, headerAcceptEncoding, defaultAcceptEncoding)]
              ELSE r1
    IN IF HeaderGet(r2.header, headerAccept) = ""
       THEN [r2 EXCEPT !.header = HeaderSet(@, headerAccept, defaultAccept)]
       ELSE r2

\* RedirectRequest as net/http's own redirect policy builds it for a 302:
\* GET, no body
RedirectRequestDemoted(c, r, location) ==
    LET n == NewRequest("GET", location, NoStream)
    IN [ok |-> n.ok,
        req |-> [n.req EXCEPT !.header = r.header, !.cookies = r.cookies,
                              !.length = 0]]

\* the request the redirect loop builds for `location` from the request r it
\* just sent: r's header (Cookie header included) is cloned onto it, then each
\* cookie of r is added again with AddCookie.  The body handed over is r.Body,
\* the io.ReadCloser that wraps the reader, a type NewRequestWithContext
\* takes no length from
RedirectRequest(c, r, location) ==
    LET originHeader == r.header
        originCookieHeader == r.cookies
        originCookies == Cookies(r)
        n == NewRequest(c.Method, location, r.body)
        withHeader == [n.req EXCEPT !.header = originHeader,
                                    !.cookies = originCookieHeader,
                                    !.length = 0]
    IN [ok |-> n.ok, req |-> AddCookies(withHeader, originCookies)]

----------------------------------------------------------------------------
(* Responses and readBody. *)

GzipHeaderLen == 10
BufioSize == 4096

StatusNoContent == 204
StatusMultipleChoices == 300
StatusBadRequest == 400

\* a declared Content-Length: absent, not a number, or the number n
NoLength == [k |-> "absent", n |-> 0]
TextLength == [k |-> "text", n |-> 0]
Length(n) == [k |-> "num", n |-> n]

\* size, _ = strconv.Atoi(contentLength), size staying 0 without the header
DeclaredSize(cl) == IF cl.k = "num" THEN cl.n ELSE 0

\* a response Body stream: the format of its n raw bytes, the number of bytes
\* they decode to, and whether a Read past them fails instead of reporting
\* end-of-stream
Encoded(fmt, n, out, bad) == [fmt |-> fmt, n |-> n, out |-> out, bad |-> bad]

\* a stream that is not compressed
RawStream(fmt, n, bad) == Encoded(fmt, n, n, bad)

NoData == [tr |-> "none", n |-> 0]

\* Transform with the LZW encodings left alone: only "gzip" and "x-gzip" are
\* taken for gzip
TransformGzipOnly(encoding) ==
    CASE encoding \in {"gzip", "x-gzip"} -> "gzip"
      [] encoding = "br" -> "br"
      [] encoding = "deflate" -> "deflate"
      [] OTHER -> "plain"

\* the transform readBody selects for a Content-Encoding
Transform(encoding) ==
    CASE encoding \in {"gzip", "x-gzip", "compress", "x-compress"} -> "gzip"
      [] encoding = "br" -> "br"
      [] encoding = "deflate" -> "deflate"
      [] OTHER -> "plain"

\* readBody with res.Body closed after the read instead of by a defer: the
\* early returns leave it open
readBodyClosingAfterRead(res, method, maxBodyLength) ==
    LET st == res.stream
        tr == IF res.status # StatusNoContent \/ method # "HEAD"
              THEN Transform(res.encoding) ELSE "plain"
        ahead == IF tr = "gzip" THEN Min(st.n, BufioSize) ELSE 0
        gzipOK == st.fmt = "gzip" /\ st.n >= GzipHeaderLen
        size == DeclaredSize(res.cl)
    IN IF tr = "gzip" /\ ~gzipOK
       THEN [data |-> NoData, err |-> Err("failed to create Gzip reader"),
             read |-> ahead, closed |-> 0]
       ELSE IF maxBodyLength > 0 /\ size > maxBodyLength
       THEN [data |-> NoData, err |-> ErrBodyExceeds(maxBodyLength),
             read |-> ahead, closed |-> 0]
       ELSE IF st.bad \/ (tr # "plain" /\ st.fmt # tr)
       THEN [data |-> NoData, err |-> Err("failed to read response body"),
             read |-> st.n, closed |-> 1]
       ELSE [data |-> [tr |-> tr, n |-> IF tr = "plain" THEN st.n ELSE st.out],
             err |-> NoErr, read |-> st.n, closed |-> 1]

\* readBody(res, maxBodyLength) for a response to a request with `method`:
\* the data and error returned, the bytes taken from res.Body and the number
\* of times res.Body was closed
readBody(res, method, maxBodyLength) ==
    LET st == res.stream
        tr == IF res.status # StatusNoContent \/ method # "HEAD"
              THEN Transform(res.encoding) ELSE "plain"
        \* gzip.NewReader reads the gzip header through a bufio.Reader
        ahead == IF tr = "gzip" THEN Min(st.n, BufioSize) ELSE 0
        gzipOK == st.fmt = "gzip" /\ st.n >= GzipHeaderLen
        size == DeclaredSize(res.cl)
    IN IF tr = "gzip" /\ ~gzipOK
       THEN [data |-> NoData, err |-> Err("failed to create Gzip reader"),
             read |-> ahead, closed |-> 1]
       ELSE IF maxBodyLength > 0 /\ size > maxBodyLength
       THEN [data |-> NoData, err |-> ErrBodyExceeds(maxBodyLength),
             read |-> ahead, closed |-> 1]
       ELSE IF st.bad \/ (tr # "plain" /\ st.fmt # tr)
       THEN [data |-> NoData, err |-> Err("failed to read response body"),
             read |-> st.n, closed |-> 1]
       ELSE [data |-> [tr |-> tr, n |-> IF tr = "plain" THEN st.n ELSE st.out],
             err |-> NoErr, read |-> st.n, closed |-> 1]

----------------------------------------------------------------------------
(* The state of one Request call. *)

\* what Request looks at in the answer of config.Client.Do before it decides
\* what to do: whether the call failed, the status and the Location header
\* ("" when absent)
NoResp == [status |-> 0, location |-> <<>>, failed |-> FALSE]

ErrorAnswer == [status |-> 0, location |-> <<>>, failed |-> TRUE]

Answer(status, location) ==
    [status |-> status, location |-> location, failed |-> FALSE]

\* the *http.Response handed to readBody: status, Content-Encoding,
\* Content-Length and Body stream
HttpResponse(status, encoding, cl, stream) ==
    [status |-> status, encoding |-> encoding, cl |-> cl, stream |-> stream]

NoResponse == [status |-> 0, body |-> NoData]

NotReturned ==
    [kind |-> "none", hasResp |-> FALSE, err |-> NoErr, response |-> NoResponse]

\* return nil, err
ReturnErr(err) ==
    [kind |-> "returned", hasResp |-> FALSE, err |-> err, response |-> NoResponse]

\* return &response, nil
ReturnResponse(r) ==
    [kind |-> "returned", hasResp |-> TRUE, err |-> NoErr, response |-> r]

\* a run-time panic unwinds Request: nothing is returned
Panicked ==
    [kind |-> "panic", hasResp |-> FALSE, err |-> NoErr, response |-> NoResponse]

\* IsRedirect with > for >=
IsRedirectAbove300(status) ==
    status > StatusMultipleChoices /\ status < StatusBadRequest

\* resp.StatusCode >= http.StatusMultipleChoices &&
\* resp.StatusCode < http.StatusBadRequest
IsRedirect(status) ==
    status >= StatusMultipleChoices /\ status < StatusBadRequest

NoReadBody ==
    [res |-> HttpResponse(0, "", NoLength, RawStream("plain", 0, FALSE)),
     method |-> "", max |-> 0, done |-> FALSE,
     out |-> [data |-> NoData, err |-> NoErr, read |-> 0, closed |-> 0]]

\* the statuses, Location values and bodies the model's transport answers with
Statuses == {200, 204, 300, 304, 399, 400}
Locations == {<<>>, LocNext, LocBad}
PipelineEncodings == {"", "gzip"}
PipelineLengths == {NoLength, Length(MaxStreamLen + 1)}
PipelineStreams ==
    {RawStream("plain", MaxStreamLen, TRUE),
     Encoded("gzip", GzipHeaderLen + MaxStreamLen, MaxStreamLen + 1, FALSE)}

\* what an interceptor does when invoked: a request interceptor may also
\* change the Method or the Body of the descriptor it is handed
RequestOutcomes == {"ok", "fail", "method", "body"}
ResponseOutcomes == {"ok", "fail"}

ReplacedBody == Body("string", 2)

\* the descriptor after request interceptor outcome `out`
Intercepted(c, out) ==
    CASE out = "method" -> [c EXCEPT !.Method = "PUT"]
      [] out = "body" -> [c EXCEPT !.Body = ReplacedBody]
      [] OTHER -> c

----------------------------------------------------------------------------
(* Surf.Request, step by step.  A step ends where the call hands control to *)
(* an interceptor or to the transport.                                      *)

\* Request up to the first interceptor: mergeConfig, then prepareRequest's
\* getRequestBody, NewRequestWithContext and the profile's headers and cookies
BeginRequest ==
    /\ pc = "start"
    /\ LET m == mergeConfig(rc, cfg)
           g == getRequestBody(m, 1)
       IN \E u \in BuildURL(g.rc) :
            LET n == NewRequest(g.rc.Method, u, g.r)
            IN /\ rc' = g.rc
               /\ IF g.err # NoErr
                  THEN /\ ret' = ReturnErr(g.err)
                       /\ pc' = "done"
                       /\ UNCHANGED <<orgBody, req>>
                  ELSE IF ~n.ok
                  THEN /\ ret' = ReturnErr(Err("parse url"))
                       /\ pc' = "done"
                       /\ UNCHANGED <<orgBody, req>>
                  ELSE /\ orgBody' = g.rc.Body
                       /\ req' = AddCookies(SetHeaders(n.req, cfg.Header),
                                            cfg.Cookies)
                       /\ pc' = "reqProfile"
                       /\ UNCHANGED ret
    /\ clients' = mergeClient(rc, cfg, clients)
    /\ UNCHANGED <<sent, callers, cloned, jobs, built, rb, cfg, idx, redirects, calls, resp, io, ran, response>>

\* an entry of the log of interceptor invocations: which one, and whether it
\* returned an error
Invocation(id, failed) == [list |-> id.list, i |-> id.i, err |-> failed]

\* Chain with the descriptor's lists invoked where the profile's belong
ChainDescriptorFirst(p) ==
    CASE p = "reqProfile" -> rc.RequestInterceptors
      [] p = "reqDesc" -> cfg.RequestInterceptors
      [] p = "respProfile" -> rc.ResponseInterceptors
      [] p = "respDesc" -> cfg.ResponseInterceptors
      [] OTHER -> <<>>

\* the list a chain ranges over at position p of the call
Chain(p) ==
    CASE p = "reqProfile" -> cfg.RequestInterceptors
      [] p = "reqDesc" -> rc.RequestInterceptors
      [] p = "respProfile" -> cfg.ResponseInterceptors
      [] p = "respDesc" -> rc.ResponseInterceptors
      [] OTHER -> <<>>

\* InvokeRequest with the error of fn dropped: the loop goes on
InvokeRequestIgnoringError(p) ==
    /\ pc = p
    /\ idx <= Len(Chain(p))
    /\ \E out \in RequestOutcomes :
         /\ ran' = Append(ran, Invocation(Chain(p)[idx], out = "fail"))
         /\ rc' = Intercepted(rc, out)
         /\ idx' = idx + 1
         /\ UNCHANGED <<pc, ret>>
    /\ UNCHANGED <<sent, callers, cloned, jobs, built, clients, rb, cfg, orgBody, req, redirects, calls, resp, io, response>>

\* one iteration of the loop of an invokeRequestInterceptors: fn(config), and
\* the return of prepareRequest and Request when fn fails
InvokeRequest(p) ==
    /\ pc = p
    /\ idx <= Len(Chain(p))
    /\ \E out \in RequestOutcomes :
         /\ ran' = Append(ran, Invocation(Chain(p)[idx], out = "fail"))
         /\ IF out = "fail"
            THEN /\ ret' = ReturnErr(InterceptorErr(Chain(p)[idx]))
                 /\ pc' = "done"
                 /\ UNCHANGED <<rc, idx>>
            ELSE /\ rc' = Intercepted(rc, out)
                 /\ idx' = idx + 1
                 /\ UNCHANGED <<pc, ret>>
    /\ UNCHANGED <<sent, callers, cloned, jobs, built, clients, rb, cfg, orgBody, req, redirects, calls, resp, io, response>>

\* Config.invokeRequestInterceptors, one interceptor (surf.go line 60)
ProfileRequestInterceptor == InvokeRequest("reqProfile")

\* the profile's chain is through: prepareRequest goes on to the descriptor's
EndProfileRequestChain ==
    /\ pc = "reqProfile"
    /\ idx > Len(Chain(pc))
    /\ pc' = "reqDesc"
    /\ idx' = 1
    /\ UNCHANGED <<sent, callers, cloned, jobs, built, clients, rb, cfg, rc, orgBody, req, redirects, calls, resp, io, ran,
                   response, ret>>

\* RequestConfig.invokeRequestInterceptors, one interceptor (surf.go line 65)
DescriptorRequestInterceptor == InvokeRequest("reqDesc")

\* the rest of prepareRequest, once the descriptor's chain is through: the
\* body comparison and re-resolution, URL, descriptor headers and cookies,
\* setContentTypeHeader, default headers
FinishPrepare ==
    /\ pc = "reqDesc"
    /\ idx > Len(Chain(pc))
    /\ IF orgBody.kind = rc.Body.kind /\ ~Comparable(orgBody.kind)
       THEN /\ ret' = Panicked
            /\ pc' = "done"
            /\ UNCHANGED <<rc, req>>
       ELSE LET changed == orgBody # rc.Body
                g == IF changed THEN getRequestBody(rc, 2)
                     ELSE [r |-> req.body, err |-> NoErr, rc |-> rc]
            IN \E u \in BuildURL(g.rc) :
                 IF g.err # NoErr
                 THEN /\ ret' = ReturnErr(g.err)
                      /\ pc' = "done"
                      /\ rc' = g.rc
                      /\ UNCHANGED req
                 ELSE IF ~urlParseOK(u)
                 THEN /\ ret' = ReturnErr(Err("parse url"))
                      /\ pc' = "done"
                      /\ rc' = g.rc
                      /\ UNCHANGED req
                 ELSE /\ req' = DefaultHeaders(
                                  AddCookies(
                                    AddHeaders([req EXCEPT !.body = g.r,
                                                           !.url = u],
                                               g.rc.Header),
                                    g.rc.Cookies))
                      /\ rc' = setContentTypeHeader(g.rc)
                      /\ pc' = "send"
                      /\ UNCHANGED ret
    /\ UNCHANGED <<sent, callers, cloned, jobs, built, clients, rb, cfg, idx, orgBody, redirects, calls, resp, io, ran, response>>

----------------------------------------------------------------------------
(* The redirect loop of Request: each action is one config.Client.Do call   *)
(* with one kind of answer, and what Request does with that answer.         *)

\* config.Client.Do(req) is called with the current request
Sending == pc = "send" /\ Len(calls) < MaxCalls

\* the bookkeeping of a call answered with `a`; a response body that Request
\* does not hand to readBody is neither read nor closed
Called(a, read, closed) ==
    /\ calls' = Append(calls, req)
    /\ resp' = a
    /\ io' = Append(io, [read |-> read, closed |-> closed])

\* TransportError with the failed call tried again instead of returned
TransportErrorRetried ==
    /\ Sending
    /\ Called(ErrorAnswer, 0, 0)
    /\ UNCHANGED <<sent, callers, cloned, jobs, built, clients, rb, cfg, rc, pc, idx, orgBody, req, redirects, ran, response,
                   ret>>

\* the transport fails: return nil, err
TransportError ==
    /\ Sending
    /\ Called(ErrorAnswer, 0, 0)
    /\ ret' = ReturnErr(Err("transport"))
    /\ pc' = "done"
    /\ UNCHANGED <<sent, callers, cloned, jobs, built, clients, rb, cfg, rc, idx, orgBody, req, redirects, ran, response>>

\* a 3xx answer without Location: return nil, ErrRedirectMissingLocation
RedirectMissingLocation ==
    /\ Sending
    /\ \E status \in {st \in Statuses : IsRedirect(st)} :
         Called(Answer(status, <<>>), 0, 0)
    /\ ret' = ReturnErr(ErrRedirectMissingLocation)
    /\ pc' = "done"
    /\ UNCHANGED <<sent, callers, cloned, jobs, built, clients, rb, cfg, rc, idx, orgBody, req, redirects, ran, response>>

\* RedirectsExceeded with >= for >
RedirectsExceededOffByOne(c, n) == c.MaxRedirects > 0 /\ n >= c.MaxRedirects

\* config.MaxRedirects > 0 && redirects > config.MaxRedirects
RedirectsExceeded(c, n) == c.MaxRedirects > 0 /\ n > c.MaxRedirects

\* Redirect with the hop prepared like the first request: the request-phase
\* chains run again before the next transport call
RedirectRerunningChains ==
    /\ Sending
    /\ \E status \in {st \in Statuses : IsRedirect(st)},
          location \in Locations \ {<<>>} :
         LET n == RedirectRequest(rc, req, location)
         IN /\ Called(Answer(status, location), 0, 0)
            /\ IF ~n.ok
               THEN /\ req' = NoReq
                    /\ ret' = ReturnErr(Err("parse url"))
                    /\ pc' = "done"
                    /\ UNCHANGED <<redirects, idx>>
               ELSE /\ req' = n.req
                    /\ redirects' = redirects + 1
                    /\ IF RedirectsExceeded(rc, redirects + 1)
                       THEN /\ ret' = ReturnErr(ErrRedirectsExceeded(rc.MaxRedirects))
                            /\ pc' = "done"
                            /\ UNCHANGED idx
                       ELSE /\ pc' = "reqProfile"
                            /\ idx' = 1
                            /\ UNCHANGED ret
    /\ UNCHANGED <<sent, callers, cloned, jobs, built, clients, rb, cfg, rc, orgBody, ran, response>>

\* a 3xx answer with a Location: the next request is built and the counter
\* incremented; Request returns when NewRequestWithContext rejects the
\* Location or the counter exceeds MaxRedirects, and loops otherwise
Redirect ==
    /\ Sending
    /\ \E status \in {st \in Statuses : IsRedirect(st)},
          location \in Locations \ {<<>>} :
         LET n == RedirectRequest(rc, req, location)
         IN /\ Called(Answer(status, location), 0, 0)
            /\ IF ~n.ok
               THEN /\ req' = NoReq
                    /\ ret' = ReturnErr(Err("parse url"))
                    /\ pc' = "done"
                    /\ UNCHANGED redirects
               ELSE /\ req' = n.req
                    /\ redirects' = redirects + 1
                    /\ IF RedirectsExceeded(rc, redirects + 1)
                       THEN /\ ret' = ReturnErr(ErrRedirectsExceeded(rc.MaxRedirects))
                            /\ pc' = "done"
                       ELSE UNCHANGED <<ret, pc>>
    /\ UNCHANGED <<sent, callers, cloned, jobs, built, clients, rb, cfg, rc, idx, orgBody, ran, response>>

\* an answer outside [300,400): readBody, then either return nil, err or
\* build the Response and go on to the response interceptors
ReceiveResponse ==
    /\ Sending
    /\ \E status \in {st \in Statuses : ~IsRedirect(st)},
          encoding \in PipelineEncodings, cl \in PipelineLengths,
          stream \in PipelineStreams :
         LET b == readBody(HttpResponse(status, encoding, cl, stream),
                           req.method, rc.MaxBodyLength)
         IN /\ Called(Answer(status, <<>>), b.read, b.closed)
            /\ IF b.err # NoErr
               THEN /\ ret' = ReturnErr(b.err)
                    /\ pc' = "done"
                    /\ UNCHANGED <<response, idx>>
               ELSE /\ response' = [status |-> status, body |-> b.data]
                    /\ pc' = "respProfile"
                    /\ idx' = 1
                    /\ UNCHANGED ret
    /\ UNCHANGED <<sent, callers, cloned, jobs, built, clients, rb, cfg, rc, orgBody, req, redirects, ran>>

\* InvokeResponse with the error of fn remembered but the loop going on
InvokeResponseKeepsGoing(p) ==
    /\ pc = p
    /\ idx <= Len(Chain(p))
    /\ \E out \in ResponseOutcomes :
         /\ ran' = Append(ran, Invocation(Chain(p)[idx], out = "fail"))
         /\ idx' = idx + 1
         /\ UNCHANGED <<pc, ret>>
    /\ UNCHANGED <<sent, callers, cloned, jobs, built, clients, rb, cfg, rc, orgBody, req, redirects, calls, resp, io, response>>

\* one iteration of the loop of an invokeResponseInterceptors: fn(resp), and
\* the return of Request when fn fails
InvokeResponse(p) ==
    /\ pc = p
    /\ idx <= Len(Chain(p))
    /\ \E out \in ResponseOutcomes :
         /\ ran' = Append(ran, Invocation(Chain(p)[idx], out = "fail"))
         /\ IF out = "fail"
            THEN /\ ret' = ReturnErr(InterceptorErr(Chain(p)[idx]))
                 /\ pc' = "done"
                 /\ UNCHANGED idx
            ELSE /\ idx' = idx + 1
                 /\ UNCHANGED <<pc, ret>>
    /\ UNCHANGED <<sent, callers, cloned, jobs, built, clients, rb, cfg, rc, orgBody, req, redirects, calls, resp, io, response>>

\* Config.invokeResponseInterceptors, one interceptor (surf.go line 199)
ProfileResponseInterceptor == InvokeResponse("respProfile")

\* the profile's chain is through: Request goes on to the descriptor's
EndProfileResponseChain ==
    /\ pc = "respProfile"
    /\ idx > Len(Chain(pc))
    /\ pc' = "respDesc"
    /\ idx' = 1
    /\ UNCHANGED <<sent, callers, cloned, jobs, built, clients, rb, cfg, rc, orgBody, req, redirects, calls, resp, io, ran,
                   response, ret>>

\* RequestConfig.invokeResponseInterceptors, one interceptor (surf.go line 204)
DescriptorResponseInterceptor == InvokeResponse("respDesc")

\* ReturnResult taken as soon as the body is decoded
ReturnResultBeforeChains ==
    /\ pc = "respProfile"
    /\ ret' = ReturnResponse(response)
    /\ pc' = "done"
    /\ UNCHANGED <<sent, callers, cloned, jobs, built, clients, rb, cfg, rc, idx, orgBody, req, redirects, calls, resp, io, ran,
                   response>>

\* both chains are through: return &response, nil
ReturnResult ==
    /\ pc = "respDesc"
    /\ idx > Len(Chain(pc))
    /\ ret' = ReturnResponse(response)
    /\ pc' = "done"
    /\ UNCHANGED <<sent, callers, cloned, jobs, built, clients, rb, cfg, rc, idx, orgBody, req, redirects, calls, resp, io, ran,
                   response>>

----------------------------------------------------------------------------
(* The profiles and descriptors a Request starts from. *)

\* no direct call of BuildURL, BuildQuery, getRequestBody or
\* setContentTypeHeader was made
NotBuilt ==
    [url |-> [done |-> FALSE, v |-> <<>>],
     query |-> [done |-> FALSE, v |-> <<>>, encodes |-> 0],
     body |-> [done |-> FALSE, r |-> NoStream, err |-> NoErr],
     ctype |-> [done |-> FALSE, before |-> EmptyHeader]]

\* CloneDefaultConfig was not called: no clone; heap is the memory that holds
\* the http.Cookie values the cookie lists point to
NotCloned ==
    [done |-> FALSE, copy |-> Nil, heap |-> <<>>, was |-> Nil, via |-> {},
     n |-> 0]

CookieNames == <<"c1=v", "c2=v", "c3=v", "c4=v", "c5=v", "c6=v">>

\* the first n cookies from position `from` on
SomeCookies(from, n) == [i \in 1..n |-> CookieNames[from + i]]

Profiles ==
    {[BaseURL |-> <<>>, Header |-> HeaderSet(EmptyHeader, headerCustom, "p"),
      Timeout |-> 0, Cookies |-> SomeCookies(0, nc),
      Params |-> NilMap, Query |-> NilMap, QuerySerializer |-> "none",
      RequestInterceptors |-> Ids("PQ", nq),
      ResponseInterceptors |-> Ids("PR", nr),
      MaxBodyLength |-> MaxStreamLen, MaxRedirects |-> 0,
      CookieJar |-> Nil, Client |-> DefaultClient,
      JSONMarshal |-> Nil, JSONUnmarshal |-> Nil,
      XMLMarshal |-> Nil, XMLUnmarshal |-> Nil]
     : nc \in 0..MaxCookies,
       nq \in 0..MaxInterceptors, nr \in 0..MaxInterceptors}

\* the descriptors a caller may pass to a client with that profile
Descriptors(profile) ==
    LET left == MaxInterceptors - Len(profile.RequestInterceptors)
                    - Len(profile.ResponseInterceptors)
    IN {[BaseURL |-> <<>>, Url |-> UrlAbs,
         Header |-> HeaderSet(EmptyHeader, headerCustom, "d"),
         Method |-> method,
         Cookies |-> SomeCookies(MaxCookies, nc),
         Timeout |-> 0, Params |-> NilMap, Query |-> NilMap,
         QuerySerializer |-> "none",
         RequestInterceptors |-> Ids("DQ", nq),
         ResponseInterceptors |-> Ids("DR", nr),
         Body |-> body, MaxBodyLength |-> 0, MaxRedirects |-> maxRedirects,
         Client |-> Nil, JSONMarshal |-> Nil, JSONUnmarshal |-> Nil,
         XMLMarshal |-> Nil, XMLUnmarshal |-> Nil,
         requestInterceptorsMu |-> Unlocked,
         responseInterceptorsMu |-> Unlocked]
        : method \in {"", "HEAD"},
          nc \in 0..(MaxCookies - Len(profile.Cookies)),
          nq \in 0..left, nr \in 0..left,
          body \in {NilBody, Body("string", 1), Body("bytes", 1)},
          maxRedirects \in 0..MaxRedirectsBound}

Init ==
    /\ cfg \in Profiles
    /\ rc \in Descriptors(cfg)
    /\ Len(cfg.RequestInterceptors) + Len(cfg.ResponseInterceptors)
           + Len(rc.RequestInterceptors) + Len(rc.ResponseInterceptors)
         <= MaxInterceptors
    /\ pc = "start"
    /\ idx = 1
    /\ orgBody = NilBody
    /\ req = NoReq
    /\ redirects = 0
    /\ calls = <<>>
    /\ resp = NoResp
    /\ io = <<>>
    /\ ran = <<>>
    /\ response = NoResponse
    /\ rb = NoReadBody
    /\ ret = NotReturned
    /\ clients = FreshClients
    /\ jobs = <<>>
    /\ built = NotBuilt
    /\ callers = <<>>
    /\ cloned = NotCloned
    /\ sent = <<>>

Next ==
    \/ BeginRequest
    \/ ProfileRequestInterceptor
    \/ EndProfileRequestChain
    \/ DescriptorRequestInterceptor
    \/ FinishPrepare
    \/ TransportError
    \/ RedirectMissingLocation
    \/ Redirect
    \/ ReceiveResponse
    \/ ProfileResponseInterceptor
    \/ EndProfileResponseChain
    \/ DescriptorResponseInterceptor
    \/ ReturnResult

Spec == Init /\ [][Next]_vars

----------------------------------------------------------------------------
(* readBody called on its own, over the responses and limits of the model. *)

Encodings ==
    {"", "gzip", "x-gzip", "compress", "x-compress", "br", "deflate", "identity"}

StreamFormats == {"plain", "gzip", "br", "deflate"}

\* raw stream lengths: shorter than a gzip header, and at least as long
StreamLengths ==
    (0..MaxStreamLen) \cup (GzipHeaderLen..(GzipHeaderLen + MaxStreamLen))

DeclaredLengths ==
    {NoLength, TextLength}
        \cup {Length(n) : n \in 0..(MaxStreamLen + 1)}
        \cup {Length(GzipHeaderLen + MaxStreamLen)}

\* the streams handed to readBody: a plain one decodes to itself, a compressed
\* one to nothing or to more than any limit of the model
Streams ==
    {RawStream("plain", n, bad) : n \in StreamLengths, bad \in BOOLEAN}
        \cup {Encoded(fmt, n, out, bad) :
                 fmt \in StreamFormats \ {"plain"}, n \in StreamLengths,
                 out \in {0, MaxStreamLen + 1}, bad \in BOOLEAN}

ReadBodyInputs ==
    {[res |-> HttpResponse(status, encoding, cl, stream),
      method |-> method, max |-> max, done |-> FALSE, out |-> NoReadBody.out]
     : status \in {200, StatusNoContent}, encoding \in Encodings,
       cl \in DeclaredLengths, stream \in Streams,
       method \in {"GET", "HEAD"}, max \in 0..MaxStreamLen}

\* the profile without interceptors and cookies
PlainProfile ==
    CHOOSE p \in Profiles :
        Len(p.RequestInterceptors) + Len(p.ResponseInterceptors)
            + Len(p.Cookies) = 0

\* the descriptor without body, method, interceptors and cookies
PlainDescriptor ==
    CHOOSE d \in Descriptors(PlainProfile) :
        /\ d.Body = NilBody /\ d.Method = "" /\ d.MaxRedirects = 0
        /\ Len(d.RequestInterceptors) + Len(d.ResponseInterceptors)
               + Len(d.Cookies) = 0

InitReadBody ==
    /\ cfg = PlainProfile
    /\ rc = PlainDescriptor
    /\ pc = "readBody"
    /\ idx = 1
    /\ orgBody = NilBody
    /\ req = NoReq
    /\ redirects = 0
    /\ calls = <<>>
    /\ resp = NoResp
    /\ io = <<>>
    /\ ran = <<>>
    /\ response = NoResponse
    /\ rb \in ReadBodyInputs
    /\ ret = NotReturned
    /\ clients = FreshClients
    /\ jobs = <<>>
    /\ built = NotBuilt
    /\ callers = <<>>
    /\ cloned = NotCloned
    /\ sent = <<>>

\* readBody(res, maxBodyLength) runs from its first line to its return
ReadBody ==
    /\ pc = "readBody"
    /\ ~rb.done
    /\ rb' = [rb EXCEPT !.done = TRUE,
                        !.out = readBody(rb.res, rb.method, rb.max)]
    /\ pc' = "done"
    /\ UNCHANGED <<sent, callers, cloned, jobs, built, clients, cfg, rc, idx, orgBody, req, redirects, calls,
                   resp, io, ran, response, ret>>

NextReadBody == ReadBody

SpecReadBody == InitReadBody /\ [][NextReadBody]_vars

----------------------------------------------------------------------------
(* BuildURL and BuildQuery called on their own, over descriptors whose     *)
(* BaseURL, Url, Params, Query and QuerySerializer vary.                   *)

\* the descriptors BuildURL and BuildQuery are called on: bases and paths
\* with up to MaxSeps separators, a base with a placeholder, one that does not
\* parse, one with a scheme, an absolute Url, a Url with "?"
BuildDescriptors ==
    LET Seps(k) == [i \in 1..k |-> "/"]
        bases == {<<"w">> \o Seps(k) : k \in 0..MaxSeps}
                    \cup {<<>>, <<"w", "/", ":", "i">>, <<"%">>,
                          <<"h", ":", "/", "/", "w">>}
        urls == {Seps(k) \o <<"a">> : k \in 0..MaxSeps}
                    \cup {UrlAbs, <<"a", "?", "b">>, <<":", "i">>}
        params == {NilMap, MakeMap(<<>>), MakeMap([k \in {"i"} |-> <<"x">>]),
                   \* a value that holds the placeholder of another key
                   MakeMap([k \in {"i", "j"} |->
                               IF k = "i" THEN <<":", "j">> ELSE <<"y">>])}
        queries ==
            {NilMap, MakeMap(<<>>),
             MakeMap([k \in {"a"} |-> <<<<"1">>>>]),
             MakeMap([k \in {"a"} |-> <<<<"1">>, <<"2">>>>]),
             MakeMap([k \in {"a"} |-> <<<<":", "i">>>>]),
             MakeMap([k \in {"i", "a"} |->
                         IF k = "i" THEN <<<<"1">>>> ELSE <<<<"2">>>>])}
    IN {[PlainDescriptor EXCEPT !.BaseURL = b, !.Url = u, !.Params = p,
                                !.Query = q, !.QuerySerializer = qs]
        : b \in bases, u \in urls, p \in params, q \in queries,
          qs \in {"none", "nilEncode", "empty", "custom", "colon"}}

InitBuildURL ==
    /\ cfg = PlainProfile
    /\ rc \in BuildDescriptors
    /\ pc = "build"
    /\ idx = 1
    /\ orgBody = NilBody
    /\ req = NoReq
    /\ redirects = 0
    /\ calls = <<>>
    /\ resp = NoResp
    /\ io = <<>>
    /\ ran = <<>>
    /\ response = NoResponse
    /\ rb = NoReadBody
    /\ ret = NotReturned
    /\ clients = FreshClients
    /\ jobs = <<>>
    /\ built = NotBuilt
    /\ callers = <<>>
    /\ cloned = NotCloned
    /\ sent = <<>>

\* rc.BuildURL() is called and returns
CallBuildURL ==
    /\ pc = "build"
    /\ ~built.url.done
    /\ \E u \in BuildURL(rc) :
         built' = [built EXCEPT !.url = [done |-> TRUE, v |-> u]]
    /\ UNCHANGED <<sent, callers, cloned, cfg, rc, pc, idx, orgBody, req, redirects, calls, resp, io,
                   ran, response, rb, ret, clients, jobs>>

\* rc.BuildQuery() is called and returns
CallBuildQuery ==
    /\ pc = "build"
    /\ ~built.query.done
    /\ built' = [built EXCEPT !.query = [done |-> TRUE, v |-> BuildQuery(rc),
                                         encodes |-> EncodeCalls(rc)]]
    /\ UNCHANGED <<sent, callers, cloned, cfg, rc, pc, idx, orgBody, req, redirects, calls, resp, io,
                   ran, response, rb, ret, clients, jobs>>

NextBuildURL == CallBuildURL \/ CallBuildQuery

SpecBuildURL == InitBuildURL /\ [][NextBuildURL]_vars

----------------------------------------------------------------------------
(* Requests made on one profile, seen from the transport handle: each       *)
(* Request is its mergeConfig and then its config.Client.Do.  The           *)
(* descriptors have no body and no interceptors, so nothing in between      *)
(* fails or touches the handle; the Requests may run one after another or   *)
(* concurrently.                                                            *)

\* a Request about to be made with descriptor d
NewJob(d) == [desc |-> d, rc |-> d, pc |-> "new", timeout |-> 0]

\* the marshal fields `who` has set: none, JSONMarshal only, XMLUnmarshal
\* only, or all four
MarshalFields(who) ==
    {[JSONMarshal |-> a, JSONUnmarshal |-> b, XMLMarshal |-> b,
      XMLUnmarshal |-> c]
     : a \in {Nil, who}, b \in {Nil, who}, c \in {Nil, who}}
        \ {[JSONMarshal |-> who, JSONUnmarshal |-> Nil, XMLMarshal |-> Nil,
             XMLUnmarshal |-> who],
            [JSONMarshal |-> Nil, JSONUnmarshal |-> who, XMLMarshal |-> who,
             XMLUnmarshal |-> who],
            [JSONMarshal |-> who, JSONUnmarshal |-> who, XMLMarshal |-> who,
             XMLUnmarshal |-> Nil],
            [JSONMarshal |-> Nil, JSONUnmarshal |-> who, XMLMarshal |-> who,
             XMLUnmarshal |-> Nil]}

\* profiles with each field mergeConfig reads set or left zero; New has
\* filled in the Client
MergeProfiles ==
    {[PlainProfile EXCEPT
         !.BaseURL = b, !.Timeout = t, !.QuerySerializer = qs,
         !.MaxBodyLength = mbl, !.Client = h, !.CookieJar = jar,
         !.JSONMarshal = f.JSONMarshal, !.JSONUnmarshal = f.JSONUnmarshal,
         !.XMLMarshal = f.XMLMarshal, !.XMLUnmarshal = f.XMLUnmarshal]
     : b \in {<<>>, <<"w">>}, t \in 0..MaxTimeout, qs \in {"none", "custom"},
       mbl \in {0, MaxStreamLen}, h \in {DefaultClient, "profileClient"},
       jar \in {Nil, "jar"}, f \in MarshalFields("profile")}

MergeDescriptors ==
    {[PlainDescriptor EXCEPT
         !.BaseURL = b, !.Timeout = t, !.QuerySerializer = qs,
         !.MaxBodyLength = mbl, !.Client = h, !.Method = method,
         !.JSONMarshal = f.JSONMarshal, !.JSONUnmarshal = f.JSONUnmarshal,
         !.XMLMarshal = f.XMLMarshal, !.XMLUnmarshal = f.XMLUnmarshal]
     : b \in {<<>>, <<"v">>}, t \in 0..MaxTimeout, qs \in {"none", "nilEncode"},
       mbl \in {0, MaxStreamLen + 1}, h \in {Nil, "ownClient"},
       method \in {"", "HEAD"}, f \in MarshalFields("descriptor")}

\* one Request, over every combination of set and unset fields
InitMerge ==
    /\ cfg \in MergeProfiles
    /\ jobs \in {<<NewJob(d)>> : d \in MergeDescriptors}
    /\ rc = PlainDescriptor
    /\ pc = "jobs"
    /\ idx = 1
    /\ orgBody = NilBody
    /\ req = NoReq
    /\ redirects = 0
    /\ calls = <<>>
    /\ resp = NoResp
    /\ io = <<>>
    /\ ran = <<>>
    /\ response = NoResponse
    /\ rb = NoReadBody
    /\ ret = NotReturned
    /\ clients = FreshClients
    /\ built = NotBuilt
    /\ callers = <<>>
    /\ cloned = NotCloned
    /\ sent = <<>>

\* MaxRequests Requests whose descriptors differ in Timeout and Client
InitClient ==
    /\ cfg \in {p \in MergeProfiles :
                  /\ p.BaseURL = <<>> /\ p.QuerySerializer = "none"
                  /\ p.MaxBodyLength = 0 /\ p.JSONMarshal = Nil
                  /\ p.XMLUnmarshal = Nil}
    /\ jobs \in [1..MaxRequests ->
                   {NewJob(d) : d \in
                       {e \in MergeDescriptors :
                           /\ e.BaseURL = <<>> /\ e.QuerySerializer = "none"
                           /\ e.MaxBodyLength = 0 /\ e.Method = ""
                           /\ e.JSONMarshal = Nil /\ e.XMLUnmarshal = Nil}}]
    /\ rc = PlainDescriptor
    /\ pc = "jobs"
    /\ idx = 1
    /\ orgBody = NilBody
    /\ req = NoReq
    /\ redirects = 0
    /\ calls = <<>>
    /\ resp = NoResp
    /\ io = <<>>
    /\ ran = <<>>
    /\ response = NoResponse
    /\ rb = NoReadBody
    /\ ret = NotReturned
    /\ clients = FreshClients
    /\ built = NotBuilt
    /\ callers = <<>>
    /\ cloned = NotCloned
    /\ sent = <<>>

\* Request j runs config.mergeConfig(s.Config)
MergeJob ==
    /\ pc = "jobs"
    /\ \E j \in 1..Len(jobs) :
         /\ jobs[j].pc = "new"
         /\ jobs' = [jobs EXCEPT ![j].rc = mergeConfig(@, cfg),
                                 ![j].pc = "merged"]
         /\ clients' = mergeClient(jobs[j].rc, cfg, clients)
    /\ UNCHANGED <<sent, callers, cloned, cfg, rc, pc, idx, orgBody, req, redirects, calls, resp, io,
                   ran, response, rb, ret, built>>

\* Request j calls config.Client.Do(req): the call runs under the Timeout its
\* handle has at that moment
DoJob ==
    /\ pc = "jobs"
    /\ \E j \in 1..Len(jobs) :
         /\ jobs[j].pc = "merged"
         /\ jobs' = [jobs EXCEPT ![j].timeout = clients[jobs[j].rc.Client].Timeout,
                                 ![j].pc = "sent"]
    /\ UNCHANGED <<sent, callers, cloned, cfg, rc, pc, idx, orgBody, req, redirects, calls, resp, io,
                   ran, response, rb, ret, clients, built>>

NextJobs == MergeJob \/ DoJob

SpecMerge == InitMerge /\ [][NextJobs]_vars

SpecClient == InitClient /\ [][NextJobs]_vars

----------------------------------------------------------------------------
(* mergeConfig on descriptors and profiles whose Params and Query vary.     *)

\* the variables of one call as construction leaves them: a client with
\* profile p, a descriptor d, the call at position `at`, nothing sent or built
Start(p, d, at) ==
    /\ cfg = p
    /\ rc = d
    /\ pc = at
    /\ idx = 1
    /\ orgBody = NilBody
    /\ req = NoReq
    /\ redirects = 0
    /\ calls = <<>>
    /\ resp = NoResp
    /\ io = <<>>
    /\ ran = <<>>
    /\ response = NoResponse
    /\ rb = NoReadBody
    /\ ret = NotReturned
    /\ clients = FreshClients
    /\ built = NotBuilt

\* one Request; the profile has no, one or two path parameters and query keys
\* with one or two values, the descriptor has some of these keys or none
InitMergeMaps ==
    LET Two(a, x, b, y) == [k \in {a, b} |-> IF k = a THEN x ELSE y]
        One(a, x) == [k \in {a} |-> x]
        profileParams ==
            {NilMap, MakeMap(One("i", <<"x">>)),
             MakeMap(Two("i", <<"x">>, "j", <<"y">>))}
        profileQueries ==
            {NilMap, MakeMap(One("a", <<<<"1">>>>)),
             MakeMap(One("a", <<<<"1">>, <<"2">>>>)),
             MakeMap(Two("a", <<<<"1">>, <<"2">>>>, "i", <<<<"3">>>>))}
        params == {NilMap, MakeMap(<<>>), MakeMap(One("i", <<"z">>))}
        queries ==
            {NilMap, MakeMap(One("a", <<<<"9">>>>)),
             MakeMap(One("i", <<<<"8">>, <<"9">>>>))}
    IN \E pp \in profileParams, pq \in profileQueries,
          dp \in params, dq \in queries :
         /\ Start([PlainProfile EXCEPT !.Params = pp, !.Query = pq],
                  PlainDescriptor, "jobs")
         /\ jobs = <<NewJob([PlainDescriptor EXCEPT !.Params = dp,
                                                    !.Query = dq])>>
         /\ callers = <<>>
         /\ cloned = NotCloned
         /\ sent = <<>>

SpecMergeMaps == InitMergeMaps /\ [][NextJobs]_vars

----------------------------------------------------------------------------
(* getRequestBody and setContentTypeHeader called on their own, in either   *)
(* order, on descriptors with every kind of body.                           *)

\* a descriptor with a body of each dynamic type, one whose serialisation
\* fails where there is a serialisation, and no Content-Type, an XML one, a
\* JSON one or one that is neither
InitBody ==
    \E kind \in BodyKinds, fails \in BOOLEAN,
       ct \in {"", xmlContentType, defaultJsonContentType,
               defaultTextContentType} :
      /\ fails => kind \in {"multipart", "struct", "slicestruct", "map"}
      /\ Start(PlainProfile,
               [PlainDescriptor EXCEPT
                   !.Body = IF kind = "nil" THEN NilBody
                            ELSE [Body(kind, 1) EXCEPT !.fails = fails],
                   !.Header = IF ct = "" THEN @
                              ELSE HeaderSet(@, headerContentType, ct)],
               "body")
      /\ jobs = <<>>
      /\ callers = <<>>
      /\ cloned = NotCloned
      /\ sent = <<>>

\* rc.getRequestBody() is called and returns
CallGetRequestBody ==
    /\ pc = "body"
    /\ ~built.body.done
    /\ LET g == getRequestBody(rc, 1)
       IN /\ built' = [built EXCEPT
                          !.body = [done |-> TRUE, r |-> g.r, err |-> g.err]]
          /\ rc' = g.rc
    /\ UNCHANGED <<sent, callers, cloned, cfg, pc, idx, orgBody, req, redirects,
                   calls, resp, io, ran, response, rb, ret, clients, jobs>>

\* rc.setContentTypeHeader() is called and returns
CallSetContentTypeHeader ==
    /\ pc = "body"
    /\ ~built.ctype.done
    /\ built' = [built EXCEPT
                    !.ctype = [done |-> TRUE, before |-> rc.Header]]
    /\ rc' = setContentTypeHeader(rc)
    /\ UNCHANGED <<sent, callers, cloned, cfg, pc, idx, orgBody, req, redirects,
                   calls, resp, io, ran, response, rb, ret, clients, jobs>>

NextBody == CallGetRequestBody \/ CallSetContentTypeHeader

SpecBody == InitBody /\ [][NextBody]_vars

----------------------------------------------------------------------------
(* Append/Prepend Request/ResponseInterceptors called on one descriptor by  *)
(* several goroutines before it is dispatched.  A call locks the list's     *)
(* mutex, reads the list, writes the extended list back and unlocks.        *)

\* Lock returning at once, whoever holds the mutex
MutexNeverHeld(mu) == TRUE

\* sync.Mutex.Lock returns only when nobody holds the mutex
MutexFree(mu) == mu = Unlocked

\* the descriptor has one interceptor in each list; caller i passes one
\* interceptor of its own to Append or Prepend of the request or response list
InitInterceptors ==
    \E ops \in [1..MaxCallers ->
                   {"Append", "Prepend"}
                       \X {<<"RequestInterceptors", "requestInterceptorsMu">>,
                           <<"ResponseInterceptors", "responseInterceptorsMu">>}] :
      /\ Start(PlainProfile,
               [PlainDescriptor EXCEPT
                   !.RequestInterceptors = Ids("DQ", 1),
                   !.ResponseInterceptors = Ids("DR", 1)],
               "register")
      /\ callers = [i \in 1..MaxCallers |->
                       [op |-> ops[i][1], list |-> ops[i][2][1],
                        mu |-> ops[i][2][2], fn |-> Ids("new", i)[i],
                        pc |-> "call", seen |-> <<>>]]
      /\ jobs = <<>>
      /\ cloned = NotCloned
      /\ sent = <<>>

\* rc.requestInterceptorsMu.Lock() / rc.responseInterceptorsMu.Lock()
LockInterceptorsMu ==
    /\ pc = "register"
    /\ \E i \in 1..Len(callers) :
         /\ callers[i].pc = "call"
         /\ MutexFree(rc[callers[i].mu])
         /\ rc' = [rc EXCEPT ![callers[i].mu] = i]
         /\ callers' = [callers EXCEPT ![i].pc = "locked"]
    /\ UNCHANGED <<sent, cloned, cfg, pc, idx, orgBody, req, redirects, calls, resp,
                   io, ran, response, rb, ret, clients, jobs, built>>

\* the right-hand side of the assignment reads the list
ReadInterceptors ==
    /\ pc = "register"
    /\ \E i \in 1..Len(callers) :
         /\ callers[i].pc = "locked"
         /\ callers' = [callers EXCEPT ![i].pc = "read",
                                       ![i].seen = rc[callers[i].list]]
    /\ UNCHANGED <<sent, cloned, cfg, rc, pc, idx, orgBody, req, redirects, calls,
                   resp, io, ran, response, rb, ret, clients, jobs, built>>

\* rc.RequestInterceptors = append(rc.RequestInterceptors, interceptors...)
\* or append(interceptors, rc.RequestInterceptors...); likewise Response
WriteInterceptors ==
    /\ pc = "register"
    /\ \E i \in 1..Len(callers) :
         /\ callers[i].pc = "read"
         /\ rc' = [rc EXCEPT ![callers[i].list] =
                      IF callers[i].op = "Append"
                      THEN callers[i].seen \o <<callers[i].fn>>
                      ELSE <<callers[i].fn>> \o callers[i].seen]
         /\ callers' = [callers EXCEPT ![i].pc = "written"]
    /\ UNCHANGED <<sent, cloned, cfg, pc, idx, orgBody, req, redirects, calls, resp,
                   io, ran, response, rb, ret, clients, jobs, built>>

\* the deferred Unlock, as the call returns
UnlockInterceptorsMu ==
    /\ pc = "register"
    /\ \E i \in 1..Len(callers) :
         /\ callers[i].pc = "written"
         /\ rc' = [rc EXCEPT ![callers[i].mu] = Unlocked]
         /\ callers' = [callers EXCEPT ![i].pc = "done"]
    /\ UNCHANGED <<sent, cloned, cfg, pc, idx, orgBody, req, redirects, calls, resp,
                   io, ran, response, rb, ret, clients, jobs, built>>

NextInterceptors ==
    \/ LockInterceptorsMu
    \/ ReadInterceptors
    \/ WriteInterceptors
    \/ UnlockInterceptorsMu

SpecInterceptors == InitInterceptors /\ [][NextInterceptors]_vars

----------------------------------------------------------------------------
(* CloneDefaultConfig, and changes made afterwards through the clone or     *)
(* through the profile.  Here a cookie list holds pointers: addresses of    *)
(* the http.Cookie values in cloned.heap.  Headers, maps and lists are      *)
(* values of the model, so a copy of one shares nothing with it.            *)

\* cloneMap: a new map with the same entries, also for a nil map
cloneMap(originalMap) == MakeMap(originalMap.m)

\* cloneURLValues: a new map whose value lists are copies
cloneURLValues(originalValues) == MakeMap(originalValues.m)

\* Surf.CloneDefaultConfig: Header.Clone, cloneMap, cloneURLValues; the
\* cookie list and the interceptor lists are copied element by element, so
\* the clone's cookie list holds the same pointers
CloneDefaultConfig(config) ==
    [config EXCEPT !.Params = cloneMap(@), !.Query = cloneURLValues(@)]

\* what a reader of config c sees: the cookies are the values pointed to
View(c, heap) ==
    [c EXCEPT !.Cookies = [i \in 1..Len(@) |-> heap[@[i]]]]

\* every result of one change made through config c: a header value added, a
\* parameter set, a query value appended, an entry of the cookie list
\* replaced by a pointer to another cookie, a field of a listed cookie
\* assigned, an entry of an interceptor list replaced
Mutations(c, heap) ==
    LET spare == Len(heap)
        changed ==
            {[c EXCEPT !.Header = HeaderAdd(@, headerCustom, "m")]}
            \cup (IF c.Params.nil THEN {}
                  ELSE {[c EXCEPT !.Params =
                            MakeMap([k \in DOMAIN @.m \cup {"m"} |->
                                        <<"m">>])]})
            \cup {[c EXCEPT !.Query.m[k] = Append(@, <<"m">>)]
                  : k \in DOMAIN c.Query.m}
            \cup {[c EXCEPT !.Cookies[i] = spare] : i \in 1..Len(c.Cookies)}
            \cup {[c EXCEPT !.RequestInterceptors[i] = Ids("m", 1)[1]]
                  : i \in 1..Len(c.RequestInterceptors)}
    IN {[c |-> d, heap |-> heap] : d \in changed}
           \cup {[c |-> c, heap |-> [heap EXCEPT ![c.Cookies[i]] = "changed"]]
                 : i \in 1..Len(c.Cookies)}

\* a profile with up to MaxCookies cookies, with or without Params and Query,
\* and one request interceptor; one more cookie exists outside the list
InitClone ==
    \E n \in 0..MaxCookies,
       params \in {NilMap, MakeMap([k \in {"i"} |-> <<"x">>])},
       query \in {NilMap, MakeMap([k \in {"a"} |-> <<<<"1">>>>])} :
      /\ Start([PlainProfile EXCEPT
                   !.Cookies = [i \in 1..n |-> i], !.Params = params,
                   !.Query = query, !.RequestInterceptors = Ids("PQ", 1)],
               PlainDescriptor, "clone")
      /\ cloned = [NotCloned EXCEPT
                      !.heap = [a \in 1..(MaxCookies + 1) |-> CookieNames[a]]]
      /\ jobs = <<>>
      /\ callers = <<>>
      /\ sent = <<>>

\* s.CloneDefaultConfig() is called and returns
CallCloneDefaultConfig ==
    /\ pc = "clone"
    /\ ~cloned.done
    /\ cloned' = [cloned EXCEPT
                     !.done = TRUE,
                     !.copy = CloneDefaultConfig(cfg),
                     !.was = [original |-> View(cfg, cloned.heap),
                              clone |-> View(CloneDefaultConfig(cfg),
                                             cloned.heap)]]
    /\ UNCHANGED <<sent, callers, cfg, rc, pc, idx, orgBody, req, redirects, calls,
                   resp, io, ran, response, rb, ret, clients, jobs, built>>

\* the caller changes something through the clone
MutateClone ==
    /\ pc = "clone"
    /\ cloned.done
    /\ cloned.n < MaxMutations
    /\ \E m \in Mutations(cloned.copy, cloned.heap) :
         cloned' = [cloned EXCEPT !.copy = m.c, !.heap = m.heap,
                                  !.via = @ \cup {"clone"}, !.n = @ + 1]
    /\ UNCHANGED <<sent, callers, cfg, rc, pc, idx, orgBody, req, redirects, calls,
                   resp, io, ran, response, rb, ret, clients, jobs, built>>

\* the caller changes something through the client's profile
MutateOriginal ==
    /\ pc = "clone"
    /\ cloned.done
    /\ cloned.n < MaxMutations
    /\ \E m \in Mutations(cfg, cloned.heap) :
         /\ cfg' = m.c
         /\ cloned' = [cloned EXCEPT !.heap = m.heap,
                                     !.via = @ \cup {"original"}, !.n = @ + 1]
    /\ UNCHANGED <<sent, callers, rc, pc, idx, orgBody, req, redirects, calls,
                   resp, io, ran, response, rb, ret, clients, jobs, built>>

NextClone == CallCloneDefaultConfig \/ MutateClone \/ MutateOriginal

SpecClone == InitClone /\ [][NextClone]_vars

----------------------------------------------------------------------------
(* The redirect loop followed without end.  The Request has no interceptors *)
(* and no cookies, profile and descriptor each carry a redirect limit or    *)
(* none, and the transport answers every call.                              *)

\* one more 3xx answer with a Location once the log of calls is full: the
\* loop goes on as in Redirect, the Location being the next URL or the first
\* one again; the log keeps its MaxCalls entries and the counter stops
\* counting there (with a limit set the loop has ended before)
RedirectAgain ==
    /\ pc = "send"
    /\ Len(calls) = MaxCalls
    /\ \E status \in {st \in Statuses : IsRedirect(st)},
          location \in {LocNext, UrlAbs} :
         LET n == RedirectRequest(rc, req, location)
         IN /\ n.ok
            /\ resp' = Answer(status, location)
            /\ req' = n.req
            /\ redirects' = Min(redirects + 1, MaxCalls)
            /\ IF RedirectsExceeded(rc, redirects + 1)
               THEN /\ ret' = ReturnErr(ErrRedirectsExceeded(rc.MaxRedirects))
                    /\ pc' = "done"
               ELSE UNCHANGED <<ret, pc>>
    /\ UNCHANGED <<sent, callers, cloned, jobs, built, clients, rb, cfg, rc, idx,
                   orgBody, calls, io, ran, response>>

InitRedirects ==
    \E limit \in 0..MaxRedirectsBound, own \in 0..MaxRedirectsBound,
       method \in {"", "HEAD"} :
      /\ Start([PlainProfile EXCEPT !.MaxRedirects = limit],
               [PlainDescriptor EXCEPT !.MaxRedirects = own,
                                       !.Method = method],
               "start")
      /\ jobs = <<>>
      /\ callers = <<>>
      /\ cloned = NotCloned
      /\ sent = <<>>

NextRedirects ==
    \/ BeginRequest
    \/ EndProfileRequestChain
    \/ FinishPrepare
    \/ TransportError
    \/ RedirectMissingLocation
    \/ Redirect
    \/ RedirectAgain
    \/ ReceiveResponse
    \/ EndProfileResponseChain
    \/ ReturnResult

\* the goroutine that runs Request takes its next step whenever it has one:
\* every transport call returns and nothing else blocks
SpecRedirects ==
    InitRedirects /\ [][NextRedirects]_vars /\ WF_vars(NextRedirects)

----------------------------------------------------------------------------
(* Request called again with the descriptor an earlier Request was called  *)
(* with: the caller keeps the *RequestConfig, and what mergeConfig and     *)
(* prepareRequest wrote into it is still there.                            *)

\* Request has returned and the caller calls it again with the same
\* descriptor: the wire requests of the finished call are kept, the locals of
\* Request start afresh
RequestAgain ==
    /\ pc = "done"
    /\ ret.kind = "returned"
    /\ Len(sent) + 1 < MaxRequests
    /\ sent' = Append(sent, calls)
    /\ pc' = "start"
    /\ idx' = 1
    /\ orgBody' = NilBody
    /\ req' = NoReq
    /\ redirects' = 0
    /\ calls' = <<>>
    /\ resp' = NoResp
    /\ io' = <<>>
    /\ ran' = <<>>
    /\ response' = NoResponse
    /\ ret' = NotReturned
    /\ UNCHANGED <<cfg, rc, clients, rb, jobs, built, callers, cloned>>

\* a client whose profile has a header and maybe a cookie, and a descriptor
\* with or without a body; no interceptors
InitTwice ==
    /\ \E p \in {q \in Profiles : /\ q.RequestInterceptors = <<>>
                                  /\ q.ResponseInterceptors = <<>>} :
         \E d \in {e \in Descriptors(p) : /\ e.RequestInterceptors = <<>>
                                          /\ e.ResponseInterceptors = <<>>
                                          /\ e.MaxRedirects = 1} :
            Start(p, d, "start")
    /\ jobs = <<>>
    /\ callers = <<>>
    /\ cloned = NotCloned
    /\ sent = <<>>

NextTwice ==
    \/ BeginRequest
    \/ EndProfileRequestChain
    \/ FinishPrepare
    \/ TransportError
    \/ RedirectMissingLocation
    \/ Redirect
    \/ ReceiveResponse
    \/ EndProfileResponseChain
    \/ ReturnResult
    \/ RequestAgain

SpecTwice == InitTwice /\ [][NextTwice]_vars

----------------------------------------------------------------------------
(* A descriptor built by one goroutine: a RequestConfig{} on which Append   *)
(* and Prepend are called one after the other, each with one or more        *)
(* interceptors, and whose request chain is then invoked.                   *)

MaxGroup == 2

\* append(interceptors, rc.RequestInterceptors...) done one argument at a
\* time: the group ends up in reverse
PrependOneByOne(list, interceptors) ==
    LET F[k \in 0..Len(interceptors)] ==
            IF k = 0 THEN list ELSE <<interceptors[k]>> \o F[k - 1]
    IN F[Len(interceptors)]

\* append(rc.RequestInterceptors, interceptors...)
AppendInterceptors(list, interceptors) == list \o interceptors

\* append(interceptors, rc.RequestInterceptors...)
PrependInterceptors(list, interceptors) == interceptors \o list

\* the interceptors passed to the k-th call, n of them
Group(k, n) == [j \in 1..n |-> [list |-> "new", i |-> MaxGroup * (k - 1) + j]]

\* up to MaxCallers calls, each Append or Prepend on the request or the
\* response list with up to MaxGroup interceptors
InitRegister ==
    \E n \in 0..MaxCallers :
      \E ops \in [1..n -> {"Append", "Prepend"}
                             \X {"RequestInterceptors", "ResponseInterceptors"}
                             \X (1..MaxGroup)] :
        /\ Start(PlainProfile, PlainDescriptor, "register")
        /\ callers = [k \in 1..n |->
                         [op |-> ops[k][1], list |-> ops[k][2],
                          interceptors |-> Group(k, ops[k][3]),
                          pc |-> "call"]]
        /\ jobs = <<>>
        /\ cloned = NotCloned
        /\ sent = <<>>

\* the next call of the goroutine, from Lock to the deferred Unlock
RegisterInterceptors ==
    /\ pc = "register"
    /\ idx <= Len(callers)
    /\ LET c == callers[idx]
       IN /\ MutexFree(IF c.list = "RequestInterceptors"
                       THEN rc.requestInterceptorsMu
                       ELSE rc.responseInterceptorsMu)
          /\ rc' = [rc EXCEPT ![c.list] =
                       IF c.op = "Append"
                       THEN AppendInterceptors(rc[c.list], c.interceptors)
                       ELSE PrependInterceptors(rc[c.list], c.interceptors)]
    /\ callers' = [callers EXCEPT ![idx].pc = "done"]
    /\ idx' = idx + 1
    /\ UNCHANGED <<sent, cloned, cfg, pc, orgBody, req, redirects, calls, resp,
                   io, ran, response, rb, ret, clients, jobs, built>>

\* all calls returned: rc.invokeRequestInterceptors(rc) is entered
EnterRequestChain ==
    /\ pc = "register"
    /\ idx > Len(callers)
    /\ pc' = "reqDesc"
    /\ idx' = 1
    /\ UNCHANGED <<sent, callers, cloned, cfg, rc, orgBody, req, redirects, calls,
                   resp, io, ran, response, rb, ret, clients, jobs, built>>

\* the loop of invokeRequestInterceptors is through: it returns nil
LeaveRequestChain ==
    /\ pc = "reqDesc"
    /\ idx > Len(Chain(pc))
    /\ pc' = "done"
    /\ ret' = ReturnErr(NoErr)
    /\ UNCHANGED <<sent, callers, cloned, cfg, rc, idx, orgBody, req, redirects,
                   calls, resp, io, ran, response, rb, clients, jobs, built>>

NextRegister ==
    \/ RegisterInterceptors
    \/ EnterRequestChain
    \/ DescriptorRequestInterceptor
    \/ LeaveRequestChain

SpecRegister == InitRegister /\ [][NextRegister]_vars

----------------------------------------------------------------------------
(* Goroutines calling Request on one client, and what the interceptors they *)
(* run call in turn.  Config.invoke...Interceptors and RequestConfig.invoke *)
(* ...Interceptors hold the mutex of their list from before the first       *)
(* interceptor until after the last; an interceptor may call Request on the *)
(* same client or register an interceptor on the descriptor in hand.  A     *)
(* goroutine is the stack of its calls, the running one last.               *)

MaxGoroutines == 2
MaxDepth == 2

\* the four chains of a Request in the order it invokes them: whose list it
\* is, the list and the mutex that guards it
ChainPhases ==
    <<[level |-> "profile", list |-> "RequestInterceptors",
       mu |-> "requestInterceptorsMu"],
      [level |-> "descriptor", list |-> "RequestInterceptors",
       mu |-> "requestInterceptorsMu"],
      [level |-> "profile", list |-> "ResponseInterceptors",
       mu |-> "responseInterceptorsMu"],
      [level |-> "descriptor", list |-> "ResponseInterceptors",
       mu |-> "responseInterceptorsMu"]>>

\* a call of Request with a descriptor of its own, about to invoke the
\* profile's request chain; the descriptor has one interceptor in each list
RequestCall ==
    [op |-> "Request", phase |-> 1, at |-> "lock", idx |-> 1,
     lists |-> [RequestInterceptors |-> 1, ResponseInterceptors |-> 1],
     requestInterceptorsMu |-> Unlocked, responseInterceptorsMu |-> Unlocked]

\* a call of Append/Prepend...Interceptors on the descriptor of the Request
\* below it on the stack, for the list of chain `phase`
RegisterCall(phase) ==
    [RequestCall EXCEPT !.op = "Register", !.phase = phase]

\* the running call of goroutine i
Top(i) == callers[i][Len(callers[i])]

\* goroutine i's stack with its running call replaced by f
WithTop(i, f) == [callers EXCEPT ![i][Len(callers[i])] = f]

\* the mutex that guards the chain call f is in or about to enter
ChainMu(f) ==
    IF ChainPhases[f.phase].level = "profile"
    THEN cfg[ChainPhases[f.phase].mu]
    ELSE f[ChainPhases[f.phase].mu]

\* the length of the list that chain ranges over
ChainLen(f) ==
    IF ChainPhases[f.phase].level = "profile"
    THEN Len(cfg[ChainPhases[f.phase].list])
    ELSE f.lists[ChainPhases[f.phase].list]

\* cfg and callers after goroutine i's running call f became g and set the
\* mutex of its chain to `holder`
ChainMuSet(i, f, g, holder) ==
    IF ChainPhases[f.phase].level = "profile"
    THEN /\ cfg' = [cfg EXCEPT ![ChainPhases[f.phase].mu] = holder]
         /\ callers' = WithTop(i, g)
    ELSE /\ callers' =
               WithTop(i, [g EXCEPT ![ChainPhases[f.phase].mu] = holder])
         /\ UNCHANGED cfg

\* MaxGoroutines goroutines call Request on a client whose profile has one
\* request and one response interceptor
InitLocks ==
    /\ Start([PlainProfile EXCEPT !.RequestInterceptors = Ids("PQ", 1),
                                  !.ResponseInterceptors = Ids("PR", 1)]
                 @@ [requestInterceptorsMu |-> Unlocked,
                     responseInterceptorsMu |-> Unlocked],
             PlainDescriptor, "locks")
    /\ callers = [i \in 1..MaxGoroutines |-> <<RequestCall>>]
    /\ jobs = <<>>
    /\ cloned = NotCloned
    /\ sent = <<>>

\* c.requestInterceptorsMu.Lock() and its three likes, as an invoke...
\* Interceptors is entered: it returns when nobody holds the mutex
LockChainMu ==
    /\ pc = "locks"
    /\ \E i \in 1..Len(callers) :
         /\ callers[i] # <<>>
         /\ Top(i).op = "Request"
         /\ Top(i).at = "lock"
         /\ MutexFree(ChainMu(Top(i)))
         /\ ChainMuSet(i, Top(i), [Top(i) EXCEPT !.at = "chain", !.idx = 1], i)
    /\ UNCHANGED <<sent, cloned, rc, pc, idx, orgBody, req, redirects, calls,
                   resp, io, ran, response, rb, ret, clients, jobs, built>>

\* err = fn(config) or fn(resp): the interceptor returns nil or an error (the
\* chain returns it, unlocking), or it calls Request on the same client, or
\* Append/Prepend...Interceptors of the chain's list on the descriptor
InvokeInterceptor ==
    /\ pc = "locks"
    /\ \E i \in 1..Len(callers) :
         /\ callers[i] # <<>>
         /\ Top(i).op = "Request"
         /\ Top(i).at = "chain"
         /\ Top(i).idx <= ChainLen(Top(i))
         /\ \E out \in {"ok", "fail", "request", "register"} :
              CASE out = "ok" ->
                     /\ callers' = WithTop(i, [Top(i) EXCEPT !.idx = @ + 1])
                     /\ UNCHANGED cfg
                [] out = "fail" ->
                     ChainMuSet(i, Top(i), [Top(i) EXCEPT !.at = "return"],
                                Unlocked)
                [] out = "request" ->
                     /\ ChainPhases[Top(i).phase].level = "profile"
                     /\ Len(callers[i]) < MaxDepth
                     /\ callers' = [callers EXCEPT
                                       ![i] = Append(@, RequestCall)]
                     /\ UNCHANGED cfg
                [] out = "register" ->
                     /\ Len(callers[i]) < MaxDepth
                     /\ Top(i).lists[ChainPhases[Top(i).phase].list]
                            < MaxInterceptors
                     /\ callers' = [callers EXCEPT
                                       ![i] = Append(@, RegisterCall(Top(i).phase))]
                     /\ UNCHANGED cfg
    /\ UNCHANGED <<sent, cloned, rc, pc, idx, orgBody, req, redirects, calls,
                   resp, io, ran, response, rb, ret, clients, jobs, built>>

\* the loop is through: the deferred Unlock, and Request goes on to its next
\* chain, to the transport, or returns
UnlockChainMu ==
    /\ pc = "locks"
    /\ \E i \in 1..Len(callers) :
         /\ callers[i] # <<>>
         /\ Top(i).op = "Request"
         /\ Top(i).at = "chain"
         /\ Top(i).idx > ChainLen(Top(i))
         /\ ChainMuSet(i, Top(i),
                       CASE Top(i).phase \in {1, 3} ->
                              [Top(i) EXCEPT !.phase = @ + 1, !.at = "lock"]
                         [] Top(i).phase = 2 -> [Top(i) EXCEPT !.at = "send"]
                         [] OTHER -> [Top(i) EXCEPT !.at = "return"],
                       Unlocked)
    /\ UNCHANGED <<sent, cloned, rc, pc, idx, orgBody, req, redirects, calls,
                   resp, io, ran, response, rb, ret, clients, jobs, built>>

\* config.Client.Do answers and readBody decodes: on to the response chains
SendAndDecode ==
    /\ pc = "locks"
    /\ \E i \in 1..Len(callers) :
         /\ callers[i] # <<>>
         /\ Top(i).at = "send"
         /\ callers' = WithTop(i, [Top(i) EXCEPT !.phase = 3, !.at = "lock"])
    /\ UNCHANGED <<sent, cloned, cfg, rc, pc, idx, orgBody, req, redirects, calls,
                   resp, io, ran, response, rb, ret, clients, jobs, built>>

\* Append/Prepend...Interceptors called by an interceptor: Lock, which
\* returns when nobody holds the mutex of the descriptor's list, the
\* assignment of the longer list, and the deferred Unlock
RegisterFromInterceptor ==
    /\ pc = "locks"
    /\ \E i \in 1..Len(callers) :
         /\ Len(callers[i]) > 1
         /\ Top(i).op = "Register"
         /\ Top(i).at = "lock"
         /\ LET ph == ChainPhases[Top(i).phase]
                d == Len(callers[i]) - 1
            IN /\ MutexFree(callers[i][d][ph.mu])
               /\ callers' = [callers EXCEPT
                                 ![i][d].lists[ph.list] = @ + 1,
                                 ![i][d + 1].at = "return"]
    /\ UNCHANGED <<sent, cloned, cfg, rc, pc, idx, orgBody, req, redirects, calls,
                   resp, io, ran, response, rb, ret, clients, jobs, built>>

\* the running call returns: to the interceptor that made it, which returns
\* nil to its chain, or out of the goroutine
ReturnToCaller ==
    /\ pc = "locks"
    /\ \E i \in 1..Len(callers) :
         /\ callers[i] # <<>>
         /\ Top(i).at = "return"
         /\ LET d == Len(callers[i]) - 1
            IN callers' = [callers EXCEPT
                              ![i] = IF d = 0 THEN <<>>
                                     ELSE [SubSeq(@, 1, d) EXCEPT
                                              ![d].idx = @ + 1]]
    /\ UNCHANGED <<sent, cloned, cfg, rc, pc, idx, orgBody, req, redirects, calls,
                   resp, io, ran, response, rb, ret, clients, jobs, built>>

NextLocks ==
    \/ LockChainMu
    \/ InvokeInterceptor
    \/ UnlockChainMu
    \/ SendAndDecode
    \/ RegisterFromInterceptor
    \/ ReturnToCaller

SpecLocks == InitLocks /\ [][NextLocks]_vars

----------------------------------------------------------------------------
(* The claims. *)

RequestLists == {"PQ", "DQ"}
ResponseLists == {"PR", "DR"}

\* the entries of the invocation log that belong to the lists `lists`
Phase(lists) == SelectSeq(ran, LAMBDA e : e.list \in lists)

IdOf(e) == [list |-> e.list, i |-> e.i]

\* the latest transport call was answered with a response of status 3xx
AnsweredWith3xx ==
    calls # <<>> /\ ~resp.failed /\ resp.status >= 300 /\ resp.status < 400

\* C1: the request-phase interceptors run profile list first, then descriptor
\* list, each in list order and all before anything else; an interceptor that
\* returns an error is the last one to run, and Request returns exactly its
\* error value.
C1_RequestInterceptorOrder ==
    LET order == cfg.RequestInterceptors \o rc.RequestInterceptors
        done == Phase(RequestLists)
    IN /\ Len(done) <= Len(order)
       /\ \A k \in 1..Len(done) :
            /\ k <= Len(order) => IdOf(done[k]) = order[k]
            /\ ran[k] = done[k]
            /\ done[k].err =>
                 /\ k = Len(ran)
                 /\ ret = ReturnErr(InterceptorErr(IdOf(done[k])))
       /\ calls # <<>> => Len(done) = Len(order)

\* a profile-level interceptor succeeded, then a descriptor-level one failed
C1_Witness ==
    /\ Len(ran) = 2
    /\ ran[1] = [list |-> "PQ", i |-> 1, err |-> FALSE]
    /\ ran[2] = [list |-> "DQ", i |-> 1, err |-> TRUE]
    /\ ret = ReturnErr(InterceptorErr([list |-> "DQ", i |-> 1]))

\* C2: once a request-phase interceptor has returned an error, Client.Do was
\* never called, no response-phase interceptor ran, and Request has returned
\* a nil Response with that error.
C2_RequestInterceptorErrorAborts ==
    \A k \in 1..Len(ran) :
        (ran[k].list \in RequestLists /\ ran[k].err) =>
            /\ calls = <<>>
            /\ \A j \in 1..Len(ran) : ran[j].list \notin ResponseLists
            /\ pc = "done"
            /\ ret.kind = "returned"
            /\ ~ret.hasResp
            /\ ret.response = NoResponse
            /\ ret.err = InterceptorErr(IdOf(ran[k]))

\* the second profile-level request interceptor failed
C2_Witness ==
    /\ Len(ran) = 2
    /\ ran[2] = [list |-> "PQ", i |-> 2, err |-> TRUE]
    /\ pc = "done"

\* C3: response-phase interceptors run only after a non-3xx response was
\* decoded, profile list first then descriptor list, each in list order; the
\* first that returns an error is the last to run and Request returns a nil
\* Response with exactly its error.
C3_ResponseInterceptorOrder ==
    LET order == cfg.ResponseInterceptors \o rc.ResponseInterceptors
        done == Phase(ResponseLists)
    IN /\ Len(done) <= Len(order)
       /\ \A k \in 1..Len(done) :
            /\ k <= Len(order) => IdOf(done[k]) = order[k]
            /\ done[k].err =>
                 /\ k = Len(done)
                 /\ ret.kind = "returned"
                 /\ ~ret.hasResp
                 /\ ret.err = InterceptorErr(IdOf(done[k]))
       /\ done # <<>> =>
            /\ response # NoResponse
            /\ calls # <<>>
            /\ ~AnsweredWith3xx
            /\ ~resp.failed
       /\ ret.hasResp => Len(done) = Len(order)

\* after a decoded response a profile-level response interceptor succeeded
\* and a descriptor-level one failed
C3_Witness ==
    /\ Phase(ResponseLists) =
           <<[list |-> "PR", i |-> 1, err |-> FALSE],
             [list |-> "DR", i |-> 1, err |-> TRUE]>>
    /\ ret = ReturnErr(InterceptorErr([list |-> "DR", i |-> 1]))
    /\ response # NoResponse

\* C4: the request built after a 3xx answer with a Location targets exactly
\* that Location, has the descriptor's method and carries the body stream of
\* the request sent before it; every wire request after the first has the
\* descriptor's method and the first one's body stream.
C4_RedirectKeepsMethodAndBody ==
    /\ (AnsweredWith3xx /\ resp.location # <<>> /\ req # NoReq) =>
          /\ req.url = resp.location
          /\ req.method = rc.Method
          /\ req.body = calls[Len(calls)].body
    /\ \A k \in 2..Len(calls) :
          /\ calls[k].body = calls[1].body
          /\ calls[k].method = rc.Method

\* a request with a body was redirected twice
C4_Witness ==
    /\ Len(calls) = 3
    /\ calls[3].url = LocNext
    /\ calls[3].body.src.kind = "string"
    /\ calls[3].method = "HEAD"

\* C5: each wire request after the first carries exactly the header multimap
\* and the cookie list of the wire request before it.
C5_RedirectKeepsHeadersAndCookies ==
    \A k \in 2..Len(calls) :
        /\ calls[k].header = calls[k - 1].header
        /\ calls[k].cookies = calls[k - 1].cookies

\* C6 as stated: with MaxRedirects = N > 0 there are never more than N+1
\* transport calls, and while every call is answered with a 3xx carrying a
\* Location, Request returns exactly when N+1 calls were made, with the
\* exceeded-redirects error.
C6_AsStated ==
    LET N == rc.MaxRedirects
    IN (N > 0 /\ pc # "start") =>
          /\ Len(calls) <= N + 1
          /\ (AnsweredWith3xx /\ resp.location # <<>>) =>
                /\ ret.kind = "returned" <=> Len(calls) = N + 1
                /\ ret.kind = "returned" => ret.err = ErrRedirectsExceeded(N)
                /\ ret.kind = "none" => pc = "send"

\* C6, amended: the same for a transport whose Location headers parse as URLs.
C6_RedirectLimit ==
    LET N == rc.MaxRedirects
    IN (N > 0 /\ pc # "start") =>
          /\ Len(calls) <= N + 1
          /\ (AnsweredWith3xx /\ resp.location # <<>>
                  /\ urlParseOK(resp.location)) =>
                /\ ret.kind = "returned" <=> Len(calls) = N + 1
                /\ ret.kind = "returned" => ret.err = ErrRedirectsExceeded(N)
                /\ ret.kind = "none" => pc = "send"

\* the limit 2 was exceeded at the third call
C6_Witness ==
    /\ rc.MaxRedirects = 2
    /\ Len(calls) = 3
    /\ redirects = 3
    /\ ret = ReturnErr(ErrRedirectsExceeded(2))

\* C7: a 3xx answer without Location makes Request return
\* ErrRedirectMissingLocation and no Response at once: the counter is not
\* incremented, the body is neither read nor decoded, no response-phase
\* interceptor runs.
C7_MissingLocation ==
    (AnsweredWith3xx /\ resp.location = <<>>) =>
        /\ ret = ReturnErr(ErrRedirectMissingLocation)
        /\ pc = "done"
        /\ redirects = Len(calls) - 1
        /\ io[Len(io)] = [read |-> 0, closed |-> 0]
        /\ response = NoResponse
        /\ Phase(ResponseLists) = <<>>

\* a 304 without Location answered the call that followed one redirect
C7_Witness ==
    /\ Len(calls) = 2
    /\ resp = Answer(304, <<>>)
    /\ redirects = 1
    /\ pc = "done"

\* C8: a transport error makes Request return that error and no Response,
\* with as many transport calls made as hops attempted (redirects + 1).
C8_TransportErrorNotRetried ==
    resp.failed =>
        /\ ret = ReturnErr(Err("transport"))
        /\ pc = "done"
        /\ Len(calls) = redirects + 1
        /\ response = NoResponse
        /\ Phase(ResponseLists) = <<>>

\* the transport failed on the hop after a redirect
C8_Witness ==
    /\ resp.failed
    /\ Len(calls) = 2
    /\ redirects = 1
    /\ ret.kind = "returned"

\* C9: Request returns either a Response and no error or an error and no
\* Response; a Response is returned only for a decoded non-3xx answer after
\* every response-phase interceptor succeeded, and it is the one Response
\* built in the call.
C9_ResponseXorError ==
    /\ ret.kind # "none" <=> pc = "done"
    /\ ret.kind = "returned" =>
          /\ ret.hasResp <=> ret.err = NoErr
          /\ ret.hasResp <=> ret.response # NoResponse
    /\ response # NoResponse =>
          /\ calls # <<>>
          /\ ~resp.failed
          /\ ~AnsweredWith3xx
          /\ response.status = resp.status
          /\ response.body # NoData
          /\ io[Len(io)].closed = 1
    /\ ret.hasResp =>
          /\ ret.response = response
          /\ Len(Phase(ResponseLists))
                 = Len(cfg.ResponseInterceptors) + Len(rc.ResponseInterceptors)
          /\ \A k \in 1..Len(ran) : ~ran[k].err

\* a Response was returned after a redirect and two response interceptors
C9_Witness ==
    /\ ret.hasResp
    /\ ret.err = NoErr
    /\ Len(calls) = 2
    /\ Len(Phase(ResponseLists)) = 2

\* C10: when maxBodyLength > 0 and the declared Content-Length exceeds it,
\* readBody fails with the body-exceeds-maximum error and has read no byte
\* of the response stream, whatever the Content-Encoding.
C10_ExceedsBeforeAnyRead ==
    (rb.done /\ rb.max > 0 /\ DeclaredSize(rb.res.cl) > rb.max) =>
        /\ rb.out.err = ErrBodyExceeds(rb.max)
        /\ rb.out.read = 0

\* C11: when the effective MaxBodyLength M is > 0 and Request returns a
\* Response, the returned body is at most M bytes long, whatever Content-Length
\* the response declared and whatever the decompression expanded to.
C11_BodyWithinMaxBodyLength ==
    (ret.hasResp /\ rc.MaxBodyLength > 0) =>
        ret.response.body.n <= rc.MaxBodyLength

\* C12: readBody closes the response's Body stream exactly once on every exit
\* path: declared length over the maximum, decompressor construction failure,
\* read error, successful read.
C12_ReadBodyClosesOnce ==
    /\ rb.done => rb.out.closed = 1
    /\ ~rb.done => rb.out.closed = 0

\* readBody returned because gzip.NewReader failed, the stream closed once
C12_Witness ==
    /\ rb.done
    /\ rb.out.err = Err("failed to create Gzip reader")
    /\ rb.out.closed = 1

\* C13: once Request has returned, every response the transport returned
\* during the call has had its Body stream closed exactly once, the 3xx
\* responses included.
C13_EveryResponseClosedOnce ==
    ret.kind = "returned" =>
        \A k \in 1..Len(io) :
            (k < Len(io) \/ ~resp.failed) => io[k].closed = 1

Https == <<"h", "t", "t", "p", "s", ":", "/", "/">>

HasPrefix(s, p) == Len(s) >= Len(p) /\ SubSeq(s, 1, Len(p)) = p

\* the number of places where sub occurs in s
CountOf(s, sub) ==
    Cardinality({i \in 1..(Len(s) - Len(sub) + 1) :
                    SubSeq(s, i, i + Len(sub) - 1) = sub})

\* BuildURL was called with a non-empty BaseURL without "://" and a Url
\* without "://"
RelativeOnSchemelessBase ==
    /\ built.url.done
    /\ rc.BaseURL # <<>>
    /\ ~Contains(rc.BaseURL, SchemeSep)
    /\ ~Contains(rc.Url, SchemeSep)

\* the base given one trailing separator if it has none, then the path
\* without its leading separators
JoinedPath(c) ==
    c.BaseURL \o (IF HasSuffix(c.BaseURL, <<"/">>) THEN <<>> ELSE <<"/">>)
        \o TrimLeftSlash(c.Url)

\* the result begins with "https://" and the base (its placeholders
\* substituted) and holds "://" once; bases "w" and "w/" with paths "a", "/a",
\* "//a" and neither Params nor Query all give "https://w/a"
PrefixedOnce(c, r) ==
    /\ \E o \in KeyOrders(c.Params.m) :
          HasPrefix(r, SubstituteIn(c, Https \o c.BaseURL, o))
    /\ CountOf(r, SchemeSep) = 1
    /\ (/\ c.BaseURL \in {<<"w">>, <<"w", "/">>}
        /\ TrimLeftSlash(c.Url) = <<"a">>
        /\ c.Params.nil /\ c.Query.nil)
          => r = Https \o <<"w", "/", "a">>

C15_AbsoluteUrlKeepsQuery ==
    (built.url.done /\ Contains(rc.Url, SchemeSep)) =>
        /\ built.url.v \in appendQueryToURL(rc, rc.Url)
        /\ (rc.Params.nil /\ ~rc.Query.nil) =>
              built.url.v = rc.Url \o <<"?">> \o BuildQuery(rc)

C17_BuildQuery ==
    built.query.done =>
        LET v == built.query.v
            custom == rc.QuerySerializer \notin {"none", "nilEncode"}
        IN /\ rc.Query.nil => v = <<>> /\ built.query.encodes = 0
           /\ (~rc.Query.nil /\ custom) =>
                 /\ v = SerializerEncode(rc.QuerySerializer, rc.Query.m)
                 /\ built.query.encodes = 1
                 /\ rc.QuerySerializer = "empty" => v = <<>>
           /\ (~rc.Query.nil /\ ~custom) =>
                 /\ v = ValuesEncode(rc.Query.m)
                 /\ built.query.encodes = 0
                 /\ rc.Query.m = [k \in {"a"} |-> <<<<"1">>>>]
                       => v = <<"a", "=", "1">>
                 /\ DOMAIN rc.Query.m = {"i", "a"}
                       => v = <<"a", "=", "2", "&", "i", "=", "1">>

\* a serializer returning "" made BuildQuery return "" for the query {a:[1]}
C17_Witness ==
    /\ built.query.done
    /\ rc.QuerySerializer = "empty"
    /\ rc.Query = MakeMap([k \in {"a"} |-> <<<<"1">>>>])
    /\ built.query.v = <<>>
    /\ built.query.encodes = 1

\* C18: Requests never change the profile's shared transport handle: its
\* Timeout and cookie Jar stay what they were before the first Request.
C18_ProfileHandleUntouched ==
    clients[cfg.Client] = FreshClients[cfg.Client]

\* C19: a Request whose descriptor Timeout is 0 on a profile whose Timeout is
\* 0 makes its transport call with no timeout in effect, whatever other
\* Requests ran before it or run beside it on the profile.
C19_NoTimeoutLeaks ==
    \A j \in 1..Len(jobs) :
        (jobs[j].pc = "sent" /\ jobs[j].desc.Timeout = 0 /\ cfg.Timeout = 0) =>
            jobs[j].timeout = 0

\* the value a field has after the merge when the descriptor's is d, the
\* profile's p and `zero` means unset
Merged(d, p, zero) == IF d # zero THEN d ELSE p

\* C20: after mergeConfig, BaseURL, Client, Timeout, QuerySerializer and
\* MaxBodyLength are the descriptor's own value if it was set and the
\* profile's otherwise; Method is the descriptor's if set and GET otherwise;
\* each marshal function is the descriptor's if set, else the profile's if
\* set, else the built-in codec.
C20_MergePrecedence ==
    \A j \in 1..Len(jobs) :
        jobs[j].pc # "new" =>
            LET d == jobs[j].desc
                m == jobs[j].rc
            IN /\ m.BaseURL = Merged(d.BaseURL, cfg.BaseURL, <<>>)
               /\ m.Client = Merged(d.Client, cfg.Client, Nil)
               /\ m.Timeout = Merged(d.Timeout, cfg.Timeout, 0)
               /\ m.QuerySerializer =
                      Merged(d.QuerySerializer, cfg.QuerySerializer, "none")
               /\ m.MaxBodyLength = Merged(d.MaxBodyLength, cfg.MaxBodyLength, 0)
               /\ m.Method = Merged(d.Method, "GET", "")
               /\ m.JSONMarshal =
                      Merged(d.JSONMarshal,
                             Merged(cfg.JSONMarshal, "json.Marshal", Nil), Nil)
               /\ m.JSONUnmarshal =
                      Merged(d.JSONUnmarshal,
                             Merged(cfg.JSONUnmarshal, "json.Unmarshal", Nil), Nil)
               /\ m.XMLMarshal =
                      Merged(d.XMLMarshal,
                             Merged(cfg.XMLMarshal, "xml.Marshal", Nil), Nil)
               /\ m.XMLUnmarshal =
                      Merged(d.XMLUnmarshal,
                             Merged(cfg.XMLUnmarshal, "xml.Unmarshal", Nil), Nil)

\* a descriptor with its own BaseURL and JSONMarshal and nothing else set was
\* merged with a profile that sets every field
C20_Witness ==
    /\ Len(jobs) = 1
    /\ jobs[1].pc = "merged"
    /\ jobs[1].desc.BaseURL = <<"v">>
    /\ jobs[1].desc.Timeout = 0
    /\ jobs[1].desc.JSONMarshal = "descriptor"
    /\ jobs[1].desc.XMLUnmarshal = Nil
    /\ cfg.BaseURL = <<"w">>
    /\ cfg.Timeout = MaxTimeout
    /\ cfg.XMLUnmarshal = "profile"
    /\ jobs[1].rc.BaseURL = <<"v">>
    /\ jobs[1].rc.Timeout = MaxTimeout
    /\ jobs[1].rc.JSONMarshal = "descriptor"
    /\ jobs[1].rc.XMLUnmarshal = "profile"
    /\ jobs[1].rc.Method = "GET"

----------------------------------------------------------------------------
(* Content types and bodies in prepareRequest. *)

\* C22: every wire request that carries a body has exactly one Content-Type
\* value.  The descriptors of Spec set no Content-Type of their own, so that
\* value would be the default inferred from the body
C22_OneContentTypeOnTheWire ==
    \A k \in 1..Len(calls) :
        calls[k].body # NoStream =>
            Len(calls[k].header[headerContentType]) = 1

\* C25: with no body, neither the descriptor's header map nor a wire request
\* holds a Content-Type (the callers of Spec set none themselves)
C25_NoBodyNoContentType ==
    rc.Body = NilBody =>
        /\ rc.Header[headerContentType] = <<>>
        /\ req.header[headerContentType] = <<>>
        /\ \A k \in 1..Len(calls) : calls[k].header[headerContentType] = <<>>

\* C30: prepareRequest returns a wire request or an error for every body; it
\* never ends in a run-time panic
C30_PrepareNeverPanics == ret.kind # "panic"

----------------------------------------------------------------------------
(* The merge of path parameters and query keys. *)

\* C21: after mergeConfig every path-parameter key and every query key of the
\* descriptor keeps its value (its whole value list); a key only the profile
\* has is in the descriptor with the profile's value, for a query key with the
\* complete list of the profile's values in order
C21_MergedKeys ==
    \A j \in 1..Len(jobs) :
        jobs[j].pc # "new" =>
            LET d == jobs[j].desc
                m == jobs[j].rc
            IN /\ \A k \in DOMAIN d.Params.m \cup DOMAIN cfg.Params.m :
                     /\ k \in DOMAIN m.Params.m
                     /\ m.Params.m[k] =
                            IF k \in DOMAIN d.Params.m THEN d.Params.m[k]
                            ELSE cfg.Params.m[k]
               /\ \A k \in DOMAIN d.Query.m \cup DOMAIN cfg.Query.m :
                     /\ k \in DOMAIN m.Query.m
                     /\ m.Query.m[k] =
                            IF k \in DOMAIN d.Query.m THEN d.Query.m[k]
                            ELSE cfg.Query.m[k]

\* the bodies getRequestBody marshals: neither stream, raw bytes, multipart
\* payload, form values nor string (nor nil)
Marshalled == {"struct", "slicestruct", "map"}

\* C23 as stated: setContentTypeHeader changes nothing when a Content-Type is
\* present; otherwise it leaves string, raw-byte and stream bodies without
\* one, gives form values the urlencoded default and every other body the
\* JSON default
C23_AsStated ==
    (built.ctype.done /\ ~built.body.done /\ rc.Body # NilBody) =>
        LET before == built.ctype.before
            kind == rc.Body.kind
            ct == headerContentType
        IN rc.Header =
              IF before[ct] # <<>> THEN before
              ELSE IF kind \in {"string", "bytes", "reader"} THEN before
              ELSE IF kind = "form"
                   THEN [before EXCEPT ![ct] = <<defaultFormContentType>>]
              ELSE [before EXCEPT ![ct] = <<defaultJsonContentType>>]

\* C23, amended: setContentTypeHeader changes nothing when a Content-Type is
\* present; otherwise a string body gets the text/plain default, a []byte
\* body the octet-stream default, a stream body none, form values the
\* urlencoded default and a marshalled body the JSON default
C23_DefaultContentType ==
    (built.ctype.done /\ ~built.body.done
        /\ rc.Body.kind \in
              {"string", "bytes", "reader", "form"} \cup Marshalled) =>
        LET before == built.ctype.before
            kind == rc.Body.kind
            ct == headerContentType
        IN rc.Header =
              IF before[ct] # <<>> THEN before
              ELSE IF kind = "string"
                   THEN [before EXCEPT ![ct] = <<defaultTextContentType>>]
              ELSE IF kind = "bytes"
                   THEN [before EXCEPT ![ct] = <<defaultStreamContentType>>]
              ELSE IF kind = "reader" THEN before
              ELSE IF kind = "form"
                   THEN [before EXCEPT ![ct] = <<defaultFormContentType>>]
              ELSE [before EXCEPT ![ct] = <<defaultJsonContentType>>]

\* setContentTypeHeader ran on a string body without Content-Type and the
\* descriptor now holds the text/plain default
C23_Witness ==
    /\ built.ctype.done
    /\ ~built.body.done
    /\ rc.Body.kind = "string"
    /\ built.ctype.before[headerContentType] = <<>>
    /\ rc.Header[headerContentType] = <<defaultTextContentType>>

\* C24: a body that is marshalled goes through the XML marshaller when the
\* Content-Type set at the call is XML-like and through the JSON marshaller in
\* every other case, no Content-Type included; the marshaller's error is what
\* getRequestBody returns
C24_MarshalledAsXmlOrJson ==
    (built.body.done /\ ~built.ctype.done /\ rc.Body.kind \in Marshalled) =>
        LET xml == rc.Header[headerContentType] = <<xmlContentType>>
        IN IF rc.Body.fails
           THEN /\ built.body.err =
                       IF xml THEN Err("xml marshal") ELSE Err("json marshal")
                /\ built.body.r = NoStream
           ELSE /\ built.body.err = NoErr
                /\ built.body.r = Stream(rc.Body, 1)

----------------------------------------------------------------------------
(* Registration of interceptors by several goroutines. *)

\* the lists that the calls of the callers in S, made one after another in
\* some order, leave from list l
RECURSIVE CalledInSomeOrder(_, _)
CalledInSomeOrder(S, l) ==
    IF S = {} THEN {l}
    ELSE UNION {CalledInSomeOrder(S \ {i},
                                  IF callers[i].op = "Append"
                                  THEN l \o <<callers[i].fn>>
                                  ELSE <<callers[i].fn>> \o l) : i \in S}

\* C26: once all concurrent Append/Prepend calls on a descriptor returned,
\* each of its lists holds every interceptor passed for it exactly once and is
\* a list that the calls made in some sequential order produce
C26_RegistrationLinearizable ==
    (\A i \in 1..Len(callers) : callers[i].pc = "done") =>
        \A l \in {"RequestInterceptors", "ResponseInterceptors"} :
            LET on == {i \in 1..Len(callers) : callers[i].list = l}
                first == IF l = "RequestInterceptors" THEN Ids("DQ", 1)
                         ELSE Ids("DR", 1)
            IN /\ \A i \in on :
                     Cardinality({k \in 1..Len(rc[l]) :
                                     rc[l][k] = callers[i].fn}) = 1
               /\ rc[l] \in CalledInSomeOrder(on, first)

\* two callers registered on the request list, one appending and one
\* prepending, and both calls returned
C26_Witness ==
    /\ Len(callers) >= 2
    /\ \A i \in 1..Len(callers) : callers[i].pc = "done"
    /\ callers[1].list = "RequestInterceptors"
    /\ callers[2].list = "RequestInterceptors"
    /\ callers[1].op = "Append"
    /\ callers[2].op = "Prepend"
    /\ Len(rc.RequestInterceptors) = Len(callers) + 1

----------------------------------------------------------------------------
(* The clone of the profile. *)

\* C27: after CloneDefaultConfig, as long as changes were made through the
\* clone only, the profile reads as it did at the clone, and as long as they
\* were made through the profile only, the clone reads as it did
C27_CloneSharesNothing ==
    cloned.done =>
        /\ "original" \notin cloned.via =>
               View(cfg, cloned.heap) = cloned.was.original
        /\ "clone" \notin cloned.via =>
               View(cloned.copy, cloned.heap) = cloned.was.clone

----------------------------------------------------------------------------
(* The bound of the redirect loop. *)

\* C28: every Request eventually returns, whatever the redirect limit (0
\* included) and whatever the transport answers (a 3xx with Location on every
\* call included)
C28_RequestReturns == <>(pc = "done")

\* C29: when the profile carries a redirect limit N > 0 and the descriptor
\* none, a Request that saw more than N redirects has failed with the
\* exceeded-redirects error for N
C29_ProfileLimitApplies ==
    (cfg.MaxRedirects > 0 /\ rc.MaxRedirects = 0
        /\ redirects > cfg.MaxRedirects) =>
        ret = ReturnErr(ErrRedirectsExceeded(cfg.MaxRedirects))

----------------------------------------------------------------------------
(* What request interceptors change in the descriptor. *)

\* C34: all wire requests of one Request carry one and the same method, also
\* when a request interceptor changed the descriptor's Method
C34_OneMethodOnEveryHop ==
    \A k \in 1..Len(calls) : calls[k].method = calls[1].method

\* C35: when a request interceptor replaced the Body, the first wire request
\* carries the newly resolved body and a declared length that is the new
\* body's (a length of 0 beside a body declares none); otherwise it carries
\* the body resolved before the interceptors ran
C35_ReplacedBodyIsSent ==
    calls # <<>> =>
        IF rc.Body # orgBody
        THEN /\ calls[1].body = Stream(rc.Body, 2)
             /\ calls[1].length \in {0, ContentLength(Stream(rc.Body, 2))}
        ELSE /\ calls[1].body.src = orgBody
             /\ calls[1].length = ContentLength(calls[1].body)

\* C37: in one Request no interceptor is invoked twice; the request-phase
\* chains are through, without an error, before the first transport call and
\* never grow past their lists on redirect hops; response-phase interceptors
\* have run only when the latest transport call was answered, not with a 3xx
\* status, and its body was decoded into a Response, and never beside an
\* error returned by anything but a response-phase interceptor (a transport,
\* redirect-protocol or decode error)
C37_ChainsRunOnce ==
    LET requestPhase == Phase(RequestLists)
        responsePhase == Phase(ResponseLists)
    IN /\ \A j, k \in 1..Len(ran) : j # k => IdOf(ran[j]) # IdOf(ran[k])
       /\ Len(requestPhase) <=
              Len(cfg.RequestInterceptors) + Len(rc.RequestInterceptors)
       /\ Len(responsePhase) <=
              Len(cfg.ResponseInterceptors) + Len(rc.ResponseInterceptors)
       /\ calls # <<>> =>
            /\ Len(requestPhase) =
                   Len(cfg.RequestInterceptors) + Len(rc.RequestInterceptors)
            /\ \A k \in 1..Len(requestPhase) : ~requestPhase[k].err
       /\ (\/ calls = <<>>
           \/ resp.failed
           \/ AnsweredWith3xx
           \/ response = NoResponse
           \/ /\ ret.kind = "returned"
              /\ ~ret.hasResp
              /\ \A k \in 1..Len(responsePhase) :
                     ret.err # InterceptorErr(IdOf(responsePhase[k])))
            => responsePhase = <<>>

\* after a redirect hop the final answer was decoded; a request-phase
\* interceptor ran before the two transport calls and a response-phase
\* interceptor after them
C37_Witness ==
    /\ Len(calls) = 2
    /\ pc = "done"
    /\ ret.hasResp
    /\ Len(Phase(RequestLists)) = 1
    /\ Len(Phase(ResponseLists)) = 1

----------------------------------------------------------------------------
(* The transform of readBody. *)

\* C36: the transform readBody applies depends on status, request method and
\* Content-Encoding alone: none when the status is 204 and the method HEAD;
\* otherwise gzip for gzip, x-gzip, compress and x-compress, brotli for br,
\* flate for deflate, none for any other encoding or none.  Only the gzip
\* transform can fail to start; a body within the limit whose stream the
\* transform accepts is returned, read to its end, as the transform of the
\* whole stream.
C36_TransformByStatusMethodEncoding ==
    rb.done =>
        LET st == rb.res.stream
            e == rb.res.encoding
            skipped == rb.res.status = 204 /\ rb.method = "HEAD"
            tr == IF skipped THEN "plain"
                  ELSE IF e \in {"gzip", "x-gzip", "compress", "x-compress"}
                  THEN "gzip"
                  ELSE IF e = "br" THEN "br"
                  ELSE IF e = "deflate" THEN "deflate"
                  ELSE "plain"
            within == rb.max <= 0 \/ DeclaredSize(rb.res.cl) <= rb.max
            accepted == /\ ~st.bad
                        /\ tr # "plain" => st.fmt = tr
                        /\ tr = "gzip" => st.n >= GzipHeaderLen
        IN /\ rb.out.err = Err("failed to create Gzip reader") => tr = "gzip"
           /\ rb.out.err = NoErr =>
                /\ rb.out.data.tr = tr
                /\ rb.out.data.n = (IF tr = "plain" THEN st.n ELSE st.out)
                /\ rb.out.read = st.n
           /\ (within /\ accepted) => rb.out.err = NoErr

\* an x-compress body of a 204 answer to a GET was decoded with gzip
C36_Witness ==
    /\ rb.done
    /\ rb.res.status = 204
    /\ rb.method = "GET"
    /\ rb.res.encoding = "x-compress"
    /\ rb.out.err = NoErr
    /\ rb.out.data = [tr |-> "gzip", n |-> MaxStreamLen + 1]

----------------------------------------------------------------------------
(* BuildURL called again on the same descriptor. *)

\* C39: BuildURL is deterministic: the string a call returned is the only
\* string a call on the same descriptor can return, whatever the order in
\* which the path parameters are substituted
C39_BuildURLDeterministic ==
    built.url.done => BuildURL(rc) = {built.url.v}

----------------------------------------------------------------------------
(* Request called twice with one descriptor. *)

\* C40: the first wire request of a Request called again with the same
\* descriptor has the URL, the headers and the cookies of the first wire
\* request of the call before: the earlier call left nothing in the
\* descriptor that changes what is sent
C40_SameRequestTwice ==
    (sent # <<>> /\ sent[Len(sent)] # <<>> /\ calls # <<>>) =>
        LET before == sent[Len(sent)][1]
        IN /\ calls[1].url = before.url
           /\ calls[1].header = before.header
           /\ calls[1].cookies = before.cookies

----------------------------------------------------------------------------
(* Append and Prepend called in sequence. *)

\* C38: after the calls made so far each interceptor list of the descriptor
\* is the groups passed to Prepend, the latest call's first, followed by the
\* groups passed to Append, the earliest call's first, each group in the
\* order of its arguments, so that nothing is dropped or duplicated; the
\* request chain invokes the interceptors in the order of the list
C38_PrependedThenAppended ==
    LET made == IF pc = "register" THEN idx - 1 ELSE Len(callers)
        Groups(list, op) ==
            [k \in 1..made |->
                IF callers[k].list = list /\ callers[k].op = op
                THEN callers[k].interceptors ELSE <<>>]
        Forward(g) ==
            LET F[k \in 0..made] == IF k = 0 THEN <<>> ELSE F[k - 1] \o g[k]
            IN F[made]
        Backward(g) ==
            LET F[k \in 0..made] == IF k = 0 THEN <<>> ELSE g[k] \o F[k - 1]
            IN F[made]
        Expected(list) ==
            Backward(Groups(list, "Prepend")) \o Forward(Groups(list, "Append"))
    IN /\ rc.RequestInterceptors = Expected("RequestInterceptors")
       /\ rc.ResponseInterceptors = Expected("ResponseInterceptors")
       /\ Len(ran) <= Len(rc.RequestInterceptors)
       /\ \A k \in 1..Len(ran) : IdOf(ran[k]) = rc.RequestInterceptors[k]
       /\ (pc = "done" /\ ret = ReturnErr(NoErr)) =>
              Len(ran) = Len(rc.RequestInterceptors)

\* two interceptors were appended, then two prepended, and all four invoked
C38_Witness ==
    /\ pc = "done"
    /\ Len(callers) = 2
    /\ callers[1].op = "Append"
    /\ callers[2].op = "Prepend"
    /\ rc.RequestInterceptors = Group(2, 2) \o Group(1, 2)
    /\ Len(ran) = 4

----------------------------------------------------------------------------
(* The interceptor mutexes while the chains run. *)

\* C31: a Request that a profile-level interceptor issues on the same client
\* is not left waiting for a mutex its own goroutine holds: the mutex of the
\* profile's chain it is about to enter is not held by the chain that runs
\* the interceptor
C31_NestedRequestNotBlocked ==
    \A i \in 1..Len(callers) :
        (/\ Len(callers[i]) > 1
         /\ Top(i).op = "Request"
         /\ Top(i).at = "lock"
         /\ ChainPhases[Top(i).phase].level = "profile")
            => cfg[ChainPhases[Top(i).phase].mu] # i

\* C32: an Append/Prepend...Interceptors call that a descriptor-level
\* interceptor makes on the descriptor in hand is not left waiting for the
\* mutex of that list: the chain that runs the interceptor does not hold it
C32_RegisterInChainReturns ==
    \A i \in 1..Len(callers) :
        (/\ Len(callers[i]) > 1
         /\ Top(i).op = "Register"
         /\ Top(i).at = "lock"
         /\ ChainPhases[Top(i).phase].level = "descriptor")
            => callers[i][Len(callers[i]) - 1][ChainPhases[Top(i).phase].mu]
                   = Unlocked

\* C33: of all the Requests on the profile at most one is inside the
\* profile's request chain and at most one inside its response chain, and the
\* one inside holds the mutex of that chain
C33_OneRequestInProfileChain ==
    \A p \in {1, 3} :
        LET inside == {c \in {<<i, d>> : i \in 1..Len(callers),
                                         d \in 1..MaxDepth} :
                          /\ c[2] <= Len(callers[c[1]])
                          /\ callers[c[1]][c[2]].op = "Request"
                          /\ callers[c[1]][c[2]].phase = p
                          /\ callers[c[1]][c[2]].at = "chain"}
        IN /\ Cardinality(inside) <= 1
           /\ \A c \in inside : cfg[ChainPhases[p].mu] = c[1]

\* one Request is inside the profile's response chain, having been through
\* the request chain, while another waits to enter the response chain
C33_Witness ==
    \E i, j \in 1..Len(callers) :
        /\ i # j
        /\ callers[i] # <<>>
        /\ callers[j] # <<>>
        /\ Top(i).phase = 3
        /\ Top(i).at = "chain"
        /\ Top(j).op = "Request"
        /\ Top(j).phase = 3
        /\ Top(j).at = "lock"

====
